---- MODULE Spec2Model ----
(***************************************************************************)
(* A model of the x-terminal backend: the shared RateLimiter               *)
(* (adapter/rate_limiter.py), the GrokAdapter (adapter/grok/__init__.py),  *)
(* the per-topic TickStore and the BarGenerator (aggregator/__init__.py),  *)
(* and the TopicManager, the TickPoller and the BarScheduler               *)
(* (core/__init__.py) over a BarStore.                                     *)
(*                                                                         *)
(* Time is counted in whole seconds.  An optional value (Python's None) is *)
(* the empty sequence and a present value x is <<x>>.                      *)
(*                                                                         *)
(* The specifications share the variables:                                 *)
(*   SpecLimiter      concurrent callers of a sliding_window category,     *)
(*   SpecFixedWindow  concurrent callers of a fixed_window category,       *)
(*   SpecTokenBucket  concurrent callers of a token_bucket category,       *)
(*   Spec             the TickStore operations on a general tick universe, *)
(*   SpecBars         the BarGenerator over a TickStore filled by polls,   *)
(*   SpecGrok         summaries and digests asked of the GrokAdapter,      *)
(*   SpecRegistry     the TopicManager operations, polls and generations,  *)
(*   SpecRead         the read path beside polls and the scheduler,        *)
(*   SpecPoller       the TickPoller loop beside operator and clock,       *)
(*   SpecScheduler    the BarScheduler's firings and backfills.            *)
(***************************************************************************)
EXTENDS Integers, Sequences, FiniteSets

VARIABLES
    now,                 \* the wall clock, time.time(), in seconds
    sliding_windows,     \* RateLimiter.sliding_windows[category]: grant timestamps
    rl_pc,               \* per caller: "idle" or "sleeping" (inside time.sleep)
    rl_wake,             \* per caller: the instant its time.sleep ends
    grants,              \* history: instant -> number of acquires that returned then
    fixed_windows,       \* RateLimiter.fixed_windows[category]: (window_start, count), if set
    token_buckets,       \* RateLimiter.token_buckets[category], in units of 1/WindowSeconds token
    last_refill,         \* RateLimiter.last_refill[category]
    max_ticks_per_topic, \* TickStore.max_ticks_per_topic
    ticks,               \* TickStore._ticks: topic -> list of ticks
    tick_ids,            \* TickStore._tick_ids: topic -> set of ids
    ever_added,          \* history: topic -> ids passed to add_ticks since the topic was last cleared
    ret,                 \* the last operation: its name, arguments and result
    topics,              \* TopicManager._topics: the topic records in insertion order
    bar_store,           \* BarStore: label -> the bars stored under it
    poller_pc,           \* TickPoller._poll_loop: "sleeping", "polling", or "stopped" (no task)
    poller_queue,        \* active_topics of _poll_all_topics still to be polled (ids)
    sched_inflight,      \* the bar _generate_current_bar is awaiting, if any
    pending,             \* history: topic id -> the error its last poll by the TickPoller met, until the operator acts
    bars_cycle,          \* _generate_bars_for_topic: the bars of the running call and how many are stored, if any
    grok_models,         \* GrokAdapter.fast_model and GrokAdapter.careful_model
    half,                \* the wall clock's half second past `now`: 0 or 1
    poll_windows,        \* history: topic id -> the windows the TickPoller's polls of it asked for
    poller_running,      \* TickPoller._running
    poller_tasks,        \* the number of _poll_loop tasks that exist
    sched_running,       \* BarScheduler._running
    sched_tasks,         \* resolution -> the number of its _generation_loop tasks that exist
    sched_pc,            \* resolution -> where the task in BarScheduler._tasks is: "none", "waiting", "generating"
    sched_queue          \* resolution -> active_topics of _generate_current_bar still to visit (labels)

vars == <<now, sliding_windows, rl_pc, rl_wake, grants,
          fixed_windows, token_buckets, last_refill,
          max_ticks_per_topic, ticks, tick_ids, ever_added, ret,
          topics, bar_store, poller_pc, poller_queue, sched_inflight,
          pending, bars_cycle, grok_models, half, poll_windows,
          poller_running, poller_tasks, sched_running, sched_tasks, sched_pc,
          sched_queue>>

bucket_vars == <<fixed_windows, token_buckets, last_refill>>
limiter_vars == <<now, sliding_windows, rl_pc, rl_wake, grants, bucket_vars>>
store_vars == <<max_ticks_per_topic, ticks, tick_ids, ever_added>>
manager_vars == <<topics, bar_store, poller_pc, poller_queue, sched_inflight,
                  pending, bars_cycle>>
window_vars == <<half, poll_windows>>
task_vars == <<poller_running, poller_tasks, sched_running, sched_tasks,
               sched_pc, sched_queue>>
loop_vars == <<grok_models, window_vars, task_vars>>

None == <<>>
Some(x) == <<x>>

Min(a, b) == IF a < b THEN a ELSE b

Max(a, b) == IF a > b THEN a ELSE b

SeqToSet(s) == {s[i] : i \in DOMAIN s}

(***************************************************************************)
(* RateLimiter, strategy sliding_window                                    *)
(***************************************************************************)

\* RateLimitConfig.requests_per_window and window_seconds of the category,
\* scaled down from the configured 60 per 60 s.
RequestsPerWindow == 2
WindowSeconds == 3

\* The callers (worker threads) sharing the limiter, and the clock's range.
NumCallers == 2
MaxClock == 5

Callers == 1..NumCallers
Clock == 0..MaxClock

\* A variant of SeqMin that takes the newest time.
SeqMax(s) == CHOOSE m \in SeqToSet(s) : \A x \in SeqToSet(s) : m >= x

\* min(window_times)
SeqMin(s) == CHOOSE m \in SeqToSet(s) : \A x \in SeqToSet(s) : m <= x

\* [t for t in window_times if current_time - t < config.window_seconds]
WindowFilter(window_times, current_time) ==
    SelectSeq(window_times, LAMBDA t : current_time - t < WindowSeconds)

RecordGrant == [grants EXCEPT ![now] = @ + 1]

\* _wait_sliding_window from its entry to its return or to time.sleep.
\* The lines between two blocking points run as one step; time.sleep is
\* where a caller certainly lets the others run.
WaitSlidingWindow(c) ==
    /\ rl_pc[c] = "idle"
    /\ LET current_time == now
           window_times == WindowFilter(sliding_windows, current_time)
           at_limit == Len(window_times) >= RequestsPerWindow
           wait_time == IF at_limit
                        THEN WindowSeconds - (current_time - SeqMin(window_times))
                        ELSE 0
       IN IF at_limit /\ wait_time > 0
          THEN /\ sliding_windows' = window_times
               /\ rl_pc' = [rl_pc EXCEPT ![c] = "sleeping"]
               /\ rl_wake' = [rl_wake EXCEPT ![c] = current_time + wait_time]
               /\ UNCHANGED grants
          ELSE /\ sliding_windows' = Append(window_times, current_time)
               /\ grants' = RecordGrant
               /\ UNCHANGED <<rl_pc, rl_wake>>
    /\ UNCHANGED <<now, bucket_vars, store_vars, ret, manager_vars, loop_vars>>

\* _wait_sliding_window after time.sleep returns: recalculate and record.
WaitSlidingWindowWake(c) ==
    /\ rl_pc[c] = "sleeping"
    /\ now >= rl_wake[c]
    /\ LET current_time == now
           window_times == WindowFilter(sliding_windows, current_time)
       IN sliding_windows' = Append(window_times, current_time)
    /\ grants' = RecordGrant
    /\ rl_pc' = [rl_pc EXCEPT ![c] = "idle"]
    /\ UNCHANGED <<now, rl_wake, bucket_vars, store_vars, ret, manager_vars,
               loop_vars>>

\* int(current_time / config.window_seconds) * config.window_seconds
window_start_of(current_time) == (current_time \div WindowSeconds) * WindowSeconds

\* _wait_fixed_window from its entry to its return or to time.sleep.
\* fixed_windows holds the category's (window_start, count) once a call has
\* stored it.
WaitFixedWindow(c) ==
    /\ rl_pc[c] = "idle"
    /\ LET current_time == now
           window_start == window_start_of(current_time)
           same_window == IF fixed_windows = None THEN FALSE
                          ELSE fixed_windows[1][1] = window_start
           stored_window == fixed_windows[1][1]
           count == fixed_windows[1][2]
           wait_time == (stored_window + WindowSeconds) - current_time
       IN IF same_window /\ count >= RequestsPerWindow
          THEN IF wait_time > 0
               THEN /\ rl_pc' = [rl_pc EXCEPT ![c] = "sleeping"]
                    /\ rl_wake' = [rl_wake EXCEPT ![c] = current_time + wait_time]
                    /\ UNCHANGED <<fixed_windows, grants>>
               ELSE /\ fixed_windows' = Some(<<window_start, count>>)
                    /\ grants' = RecordGrant
                    /\ UNCHANGED <<rl_pc, rl_wake>>
          ELSE /\ fixed_windows' =
                     Some(<<window_start, IF same_window THEN count + 1 ELSE 1>>)
               /\ grants' = RecordGrant
               /\ UNCHANGED <<rl_pc, rl_wake>>
    /\ UNCHANGED <<now, sliding_windows, token_buckets, last_refill,
                   store_vars, ret, manager_vars, loop_vars>>

\* count = 0, "Reset for new window after waiting"
count_after_wait == 0

\* _wait_fixed_window after time.sleep returns: the window of the wake and
\* count_after_wait are stored, and the call returns.
WaitFixedWindowWake(c) ==
    /\ rl_pc[c] = "sleeping"
    /\ now >= rl_wake[c]
    /\ fixed_windows' = Some(<<window_start_of(now), count_after_wait>>)
    /\ grants' = RecordGrant
    /\ rl_pc' = [rl_pc EXCEPT ![c] = "idle"]
    /\ UNCHANGED <<now, sliding_windows, rl_wake, token_buckets, last_refill,
                   store_vars, ret, manager_vars, loop_vars>>

(***************************************************************************)
(* RateLimiter, strategy token_bucket.  The balance is a float in the      *)
(* code; here it is counted in units of 1 / WindowSeconds of a token, so   *)
(* that a second refills RequestsPerWindow units, a token is WindowSeconds *)
(* units and the capacity is RequestsPerWindow * WindowSeconds units.      *)
(***************************************************************************)

\* One token, and config.requests_per_window tokens, in units.
OneToken == WindowSeconds
Capacity == RequestsPerWindow * WindowSeconds

\* min(config.requests_per_window, tokens + time_passed * refill_rate)
refilled(tokens, time_passed) ==
    Min(Capacity, tokens + time_passed * RequestsPerWindow)

\* The whole seconds time.sleep((1 - tokens) / refill_rate) takes on a
\* clock of seconds: the quotient rounded up.
sleep_seconds(tokens) ==
    ((OneToken - tokens) + RequestsPerWindow - 1) \div RequestsPerWindow

\* _wait_token_bucket from its entry to its return or to time.sleep: the
\* refill, then a token is consumed if one is there.
WaitTokenBucket(c) ==
    /\ rl_pc[c] = "idle"
    /\ LET current_time == now
           tokens == refilled(token_buckets, current_time - last_refill)
       IN /\ last_refill' = current_time
          /\ IF tokens < OneToken
             THEN /\ token_buckets' = tokens
                  /\ rl_pc' = [rl_pc EXCEPT ![c] = "sleeping"]
                  /\ rl_wake' = [rl_wake EXCEPT
                                    ![c] = current_time + sleep_seconds(tokens)]
                  /\ UNCHANGED grants
             ELSE /\ token_buckets' = tokens - OneToken
                  /\ grants' = RecordGrant
                  /\ UNCHANGED <<rl_pc, rl_wake>>
    /\ UNCHANGED <<now, sliding_windows, fixed_windows, store_vars, ret,
                   manager_vars, loop_vars>>

\* _wait_token_bucket after time.sleep returns: the refill since
\* last_refill, whoever set it, and a token is consumed.
WaitTokenBucketWake(c) ==
    /\ rl_pc[c] = "sleeping"
    /\ now >= rl_wake[c]
    /\ token_buckets' = refilled(token_buckets, now - last_refill) - OneToken
    /\ last_refill' = now
    /\ grants' = RecordGrant
    /\ rl_pc' = [rl_pc EXCEPT ![c] = "idle"]
    /\ UNCHANGED <<now, sliding_windows, rl_wake, fixed_windows, store_vars,
                   ret, manager_vars, loop_vars>>

\* The clock advances by one second.
ClockTick ==
    /\ now < MaxClock
    /\ now' = now + 1
    /\ UNCHANGED <<sliding_windows, rl_pc, rl_wake, grants, bucket_vars,
                   store_vars, ret, manager_vars, loop_vars>>

(***************************************************************************)
(* Tick and TickStore                                                      *)
(***************************************************************************)

\* A Tick carries its id, its timestamp and its metrics dict; author, text
\* and topic are read by none of the operations below.  A dict is a record
\* holding exactly the keys present.
Tick(id, timestamp, metrics) ==
    [id |-> id, timestamp |-> timestamp, metrics |-> metrics]

\* A variant of insert_ascending that is not stable: a tick goes before the
\* ticks of its own timestamp.
insert_ascending_unstable(s, x) ==
    LET p == Cardinality({i \in DOMAIN s : s[i].timestamp < x.timestamp})
    IN SubSeq(s, 1, p) \o <<x>> \o SubSeq(s, p + 1, Len(s))

\* sorted(ticks, key=lambda t: t.timestamp): Python's sort is stable, so
\* ticks with equal timestamps keep the order they have in the list.
insert_ascending(s, x) ==
    LET p == Cardinality({i \in DOMAIN s : s[i].timestamp <= x.timestamp})
    IN SubSeq(s, 1, p) \o <<x>> \o SubSeq(s, p + 1, Len(s))

sorted_by_timestamp(s) ==
    LET F[n \in 0..Len(s)] ==
            IF n = 0 THEN <<>> ELSE insert_ascending(F[n - 1], s[n])
    IN F[Len(s)]

\* sorted(ticks, key=lambda t: t.timestamp, reverse=True): descending, and
\* still stable (equal timestamps keep their list order).
insert_descending(s, x) ==
    LET p == Cardinality({i \in DOMAIN s : s[i].timestamp >= x.timestamp})
    IN SubSeq(s, 1, p) \o <<x>> \o SubSeq(s, p + 1, Len(s))

sorted_by_timestamp_reverse(s) ==
    LET F[n \in 0..Len(s)] ==
            IF n = 0 THEN <<>> ELSE insert_descending(F[n - 1], s[n])
    IN F[Len(s)]

\* tick.id not in self._tick_ids[topic]
is_new(ids, tick) == tick.id \notin ids

\* A variant of add_loop that tests every tick against the id set as it was
\* when the call began, so an id repeated inside one batch is stored twice.
add_loop_stale_ids(tks, ids, batch) ==
    LET F[n \in 0..Len(batch)] ==
            IF n = 0 THEN [ticks |-> tks, ids |-> ids, added |-> 0]
            ELSE LET prev == F[n - 1]
                     tick == batch[n]
                 IN IF is_new(ids, tick)
                    THEN [ticks |-> Append(prev.ticks, tick),
                          ids |-> prev.ids \cup {tick.id},
                          added |-> prev.added + 1]
                    ELSE prev
    IN F[Len(batch)]

\* The loop of add_ticks over the batch: the list, the id set and `added`
\* after every tick of the batch has been looked at.
add_loop(tks, ids, batch) ==
    LET F[n \in 0..Len(batch)] ==
            IF n = 0 THEN [ticks |-> tks, ids |-> ids, added |-> 0]
            ELSE LET prev == F[n - 1]
                     tick == batch[n]
                 IN IF is_new(prev.ids, tick)
                    THEN [ticks |-> Append(prev.ticks, tick),
                          ids |-> prev.ids \cup {tick.id},
                          added |-> prev.added + 1]
                    ELSE prev
    IN F[Len(batch)]

\* A variant of keep_most_recent that sorts without reverse=True and so
\* keeps the oldest ticks.
keep_oldest(tks, cap) ==
    SubSeq(sorted_by_timestamp(tks), 1, Min(cap, Len(tks)))

\* sorted(..., reverse=True)[:self.max_ticks_per_topic]
keep_most_recent(tks, cap) ==
    SubSeq(sorted_by_timestamp_reverse(tks), 1, Min(cap, Len(tks)))

\* A variant of add_ticks that leaves the store as it is after the first
\* tick of the batch, before the rest of the loop and the trim.
add_ticks_first_only(tks, ids, cap, batch) ==
    add_loop(tks, ids, SubSeq(batch, 1, Min(1, Len(batch))))

\* TickStore.add_ticks on one topic's list and id set: the new list, the new
\* id set and the returned count.
add_ticks(tks, ids, cap, batch) ==
    LET after == add_loop(tks, ids, batch)
    IN IF Len(after.ticks) > cap
       THEN LET kept == keep_most_recent(after.ticks, cap)
            IN [ticks |-> kept,
                ids |-> {kept[i].id : i \in DOMAIN kept},
                added |-> after.added]
       ELSE after

\* A variant of in_range whose end bound is inclusive.
in_range_end_inclusive(tick, start, end) ==
    /\ ~(start # None /\ tick.timestamp < start[1])
    /\ ~(end # None /\ tick.timestamp > end[1])

\* The filter of get_ticks: a tick is skipped when start is given and the
\* tick is before it, or end is given and the tick is at or after it.
in_range(tick, start, end) ==
    /\ ~(start # None /\ tick.timestamp < start[1])
    /\ ~(end # None /\ tick.timestamp >= end[1])

\* TickStore.get_ticks on one topic's list.
get_ticks(tks, start, end) ==
    sorted_by_timestamp(SelectSeq(tks, LAMBDA t : in_range(t, start, end)))

\* TickStore.get_tick_count
get_tick_count(tks) == Len(tks)

\* TickStore.get_time_range
get_time_range(tks) ==
    IF tks = <<>> THEN None
    ELSE LET sorted_ticks == sorted_by_timestamp(tks)
         IN Some(<<sorted_ticks[1].timestamp,
                   sorted_ticks[Len(sorted_ticks)].timestamp>>)

\* Sequences over S of length at most n.
SeqsUpTo(S, n) == UNION {[1..k -> S] : k \in 0..n}

\* add_ticks(topic, batch) with the batch drawn from `universe`.
AddTicks(topic, batch) ==
    /\ \E before \in {add_loop(ticks[topic], tick_ids[topic], batch)} :
       \E res \in {add_ticks(ticks[topic], tick_ids[topic],
                            max_ticks_per_topic, batch)} :
          /\ ticks' = [ticks EXCEPT ![topic] = res.ticks]
          /\ tick_ids' = [tick_ids EXCEPT ![topic] = res.ids]
          /\ ret' = [op |-> "add_ticks", topic |-> topic, args |-> batch,
                     value |-> res.added,
                     post_insert |-> Len(before.ticks),
                     dropped |-> SeqToSet(before.ticks) \ SeqToSet(res.ticks)]
    /\ ever_added' = [ever_added EXCEPT
                        ![topic] = @ \cup {batch[i].id : i \in DOMAIN batch}]
    /\ UNCHANGED <<max_ticks_per_topic, limiter_vars, manager_vars, loop_vars>>

\* get_ticks(topic, start, end)
GetTicks(topic, start, end) ==
    /\ ret' = [op |-> "get_ticks", topic |-> topic, args |-> <<start, end>>,
               value |-> get_ticks(ticks[topic], start, end)]
    /\ UNCHANGED <<store_vars, limiter_vars, manager_vars, loop_vars>>

\* clear_topic(topic)
ClearTopic(topic) ==
    /\ ticks' = [ticks EXCEPT ![topic] = <<>>]
    /\ tick_ids' = [tick_ids EXCEPT ![topic] = {}]
    /\ ever_added' = [ever_added EXCEPT ![topic] = {}]
    /\ ret' = [op |-> "clear_topic", topic |-> topic, args |-> <<>>,
               value |-> None]
    /\ UNCHANGED <<max_ticks_per_topic, limiter_vars, manager_vars, loop_vars>>

(***************************************************************************)
(* Bar and BarGenerator                                                    *)
(***************************************************************************)

\* RESOLUTION_MAP: resolution label -> seconds
RESOLUTION_MAP ==
    [r \in {"15s", "30s", "1m", "5m", "15m", "30m", "1h"} |->
        CASE r = "15s" -> 15
          [] r = "30s" -> 30
          [] r = "1m" -> 60
          [] r = "5m" -> 300
          [] r = "15m" -> 900
          [] r = "30m" -> 1800
          [] r = "1h" -> 3600]

\* t.metrics.get(name, 0)
metrics_get(metrics, name) ==
    IF name \in DOMAIN metrics THEN metrics[name] ELSE 0

\* sum(t.metrics.get(name, 0) for t in ticks)
metric_sum(tks, name) ==
    LET F[n \in 0..Len(tks)] ==
            IF n = 0 THEN 0 ELSE F[n - 1] + metrics_get(tks[n].metrics, name)
    IN F[Len(tks)]

\* The slice ticks[:5] and a variant of it that does not truncate.
SampleSize == 5

all_ticks(tks) == tks

first_ticks(tks) == SubSeq(tks, 1, Min(SampleSize, Len(tks)))

\* The BarSummary a successful SummaryProvider call attaches; only its
\* post_count, which summarize_bar sets to len(ticks), is modelled.
summarize_bar(topic, tks, start, end) == [post_count |-> Len(tks)]

\* A variant of attach_summary without the try/except: the provider's
\* exception leaves generate_bar.
attach_summary_unguarded(bar, tks, generate_summary, provider_raises) ==
    LET invoked == generate_summary /\ tks # <<>>
    IN [bar |-> IF invoked /\ ~provider_raises
                THEN [bar EXCEPT !.summary =
                         Some(summarize_bar(bar.topic, tks, bar.start, bar.end))]
                ELSE bar,
        invoked |-> invoked,
        provider_raised |-> invoked /\ provider_raises,
        raised |-> invoked /\ provider_raises]

\* The summary step of generate_bar: the provider is called when
\* generate_summary is set and the window holds a tick; what it raises is
\* caught and logged, and the bar keeps summary = None.
attach_summary(bar, tks, generate_summary, provider_raises) ==
    LET invoked == generate_summary /\ tks # <<>>
    IN [bar |-> IF invoked /\ ~provider_raises
                THEN [bar EXCEPT !.summary =
                         Some(summarize_bar(bar.topic, tks, bar.start, bar.end))]
                ELSE bar,
        invoked |-> invoked,
        provider_raised |-> invoked /\ provider_raises,
        raised |-> FALSE]

\* BarGenerator.generate_bar over one topic's stored list.  start and end
\* are datetimes, which are never falsy, so get_ticks always filters.
generate_bar(tks, topic, start, end, resolution, generate_summary, provider_raises) ==
    LET window == get_ticks(tks, Some(start), Some(end))
        sample == first_ticks(window)
        bar == [topic |-> topic,
                resolution |-> resolution,
                start |-> start,
                end |-> end,
                post_count |-> Len(window),
                total_likes |-> metric_sum(window, "like_count"),
                total_retweets |-> metric_sum(window, "retweet_count"),
                total_replies |-> metric_sum(window, "reply_count"),
                total_quotes |-> metric_sum(window, "quote_count"),
                sample_post_ids |-> [i \in DOMAIN sample |-> sample[i].id],
                summary |-> None]
    IN attach_summary(bar, window, generate_summary, provider_raises)

\* A variant of floor_to_resolution that does not floor.
no_floor(ts, resolution_seconds) == ts

\* int(ts // resolution_seconds) * resolution_seconds
floor_to_resolution(ts, resolution_seconds) ==
    (ts \div resolution_seconds) * resolution_seconds

\* A variant of previous_bar_end that steps back one second too many.
previous_bar_end_gap(bar_start) == bar_start - 1

\* bar_end = bar_start: the next bar of the loop ends where this one starts.
previous_bar_end(bar_start) == bar_start

\* BarGenerator.generate_bars over one topic's stored list: the bars, most
\* recent first, with for each whether the provider was called and whether
\* it raised.  failing holds the places (1 = most recent bar) whose provider
\* call raises if it is made.  An unsupported resolution raises ValueError.
generate_bars(tks, topic, resolution, limit, generate_summaries, end_time, failing) ==
    IF resolution \notin DOMAIN RESOLUTION_MAP
    THEN [raised |-> TRUE, bars |-> <<>>, invoked |-> <<>>,
          provider_raised |-> <<>>]
    ELSE LET resolution_seconds == RESOLUTION_MAP[resolution]
             first_end == floor_to_resolution(end_time, resolution_seconds)
             F[n \in 0..limit] ==
                 IF n = 0
                 THEN [bar_end |-> first_end, out |-> <<>>]
                 ELSE LET bar_end == F[n - 1].bar_end
                          bar_start == bar_end - resolution_seconds
                          g == generate_bar(tks, topic, bar_start, bar_end,
                                            resolution, generate_summaries,
                                            n \in failing)
                      IN [bar_end |-> previous_bar_end(bar_start),
                          out |-> Append(F[n - 1].out, g)]
             out == F[limit].out
         IN [raised |-> \E i \in DOMAIN out : out[i].raised,
             bars |-> [i \in DOMAIN out |-> out[i].bar],
             invoked |-> [i \in DOMAIN out |-> out[i].invoked],
             provider_raised |-> [i \in DOMAIN out |-> out[i].provider_raised]]

\* generate_bar and generate_bars read the store and write nothing, so what
\* follows a projection shows nothing that does not follow the state it was
\* taken in: under SpecBars every step starts from a state that a poll (or
\* the construction) left, and a behaviour is a run of polls and then one
\* projection.
AfterWrite == ret.op \in {"init", "add_ticks"}

\* generate_bar(topic, start, end, resolution, generate_summary)
GenerateBar(topic, start, end, resolution, generate_summary, provider_raises) ==
    /\ AfterWrite
    /\ LET g == generate_bar(ticks[topic], topic, start, end, resolution,
                             generate_summary, provider_raises)
       IN ret' = [op |-> "generate_bar", topic |-> topic,
                  args |-> [start |-> start, end |-> end,
                            resolution |-> resolution,
                            generate_summary |-> generate_summary],
                  raised |-> g.raised,
                  value |-> <<g.bar>>,
                  invoked |-> <<g.invoked>>,
                  provider_raised |-> <<g.provider_raised>>]
    /\ UNCHANGED <<store_vars, limiter_vars, manager_vars, loop_vars>>

\* generate_bars(topic, resolution, limit, generate_summaries, end_time);
\* an end_time of None is read from the clock, which is one more instant.
GenerateBars(topic, resolution, limit, generate_summaries, end_time, failing) ==
    /\ AfterWrite
    /\ LET g == generate_bars(ticks[topic], topic, resolution, limit,
                              generate_summaries, end_time, failing)
       IN ret' = [op |-> "generate_bars", topic |-> topic,
                  args |-> [resolution |-> resolution, limit |-> limit,
                            generate_summary |-> generate_summaries,
                            end_time |-> end_time],
                  raised |-> g.raised,
                  value |-> g.bars,
                  invoked |-> g.invoked,
                  provider_raised |-> g.provider_raised]
    /\ UNCHANGED <<store_vars, limiter_vars, manager_vars, loop_vars>>

(***************************************************************************)
(* BarStore.  Its code is not among the sources; it is modelled from the   *)
(* specification (section 4.6): a cache keyed by (topic, resolution,       *)
(* bar_start).  The model holds, per label, the set of its bars.           *)
(***************************************************************************)

\* BarStore(max_bars_per_resolution=500), as main.py constructs it.
max_bars_per_resolution == 500

\* The bars of one resolution among a label's bars.
BarStore_of(bars, resolution) == {b \in bars : b.resolution = resolution}

\* put(bar): upserts; an incoming bar with a summary supersedes an existing
\* one without, and per (topic, resolution) the oldest bar is evicted above
\* max_bars_per_resolution.
BarStore_add_bar(bars, bar) ==
    LET old == {b \in bars : b.resolution = bar.resolution /\ b.start = bar.start}
        keep_old == \E b \in old : b.summary # None /\ bar.summary = None
        put == IF keep_old THEN bars ELSE (bars \ old) \cup {bar}
        of_resolution == BarStore_of(put, bar.resolution)
        oldest == CHOOSE b \in of_resolution :
                      \A c \in of_resolution : b.start <= c.start
    IN IF Cardinality(of_resolution) > max_bars_per_resolution
       THEN put \ {oldest}
       ELSE put

\* get(topic, resolution, limit): up to limit bars, by start descending.
BarStore_get_bars(bars, resolution, limit) ==
    LET of_resolution == BarStore_of(bars, resolution)
        n == Min(limit, Cardinality(of_resolution))
        F[k \in 0..n] ==
            IF k = 0 THEN <<>>
            ELSE LET rest == of_resolution \ SeqToSet(F[k - 1])
                 IN Append(F[k - 1],
                           CHOOSE b \in rest : \A c \in rest : c.start <= b.start)
    IN F[n]

\* get_latest(topic, resolution)
BarStore_get_latest_bar(bars, resolution) ==
    LET latest == BarStore_get_bars(bars, resolution, 1)
    IN IF latest = <<>> THEN None ELSE Some(latest[1])

\* clear(topic)
BarStore_clear_topic(bars) == {}

\* BarGenerator.generate_bar_async and generate_bars_async are not among
\* the sources either: they are taken to produce what generate_bar and
\* generate_bars produce, the provider call being awaited.
generate_bar_async(tks, topic, start, end, resolution, generate_summary, provider_raises) ==
    generate_bar(tks, topic, start, end, resolution, generate_summary,
                 provider_raises)

generate_bars_async(tks, topic, resolution, limit, generate_summaries, end_time, failing) ==
    generate_bars(tks, topic, resolution, limit, generate_summaries, end_time,
                  failing)

(***************************************************************************)
(* Topic and TopicManager                                                  *)
(***************************************************************************)

\* TopicStatus
ACTIVE == "active"
PAUSED == "paused"
ERROR == "error"

\* DEFAULT_RESOLUTION, which TopicManager takes as its default_resolution.
DEFAULT_RESOLUTION == "1m"

\* A new Topic: status, last_poll, last_error, poll_count and tick_count
\* take their defaults; created_at is read by no operation.
Topic(id, label, query, resolution) ==
    [id |-> id, label |-> label, query |-> query, resolution |-> resolution,
     status |-> ACTIVE, last_poll |-> None, last_error |-> None,
     poll_count |-> 0, tick_count |-> 0]

\* topic_id in self._topics
has_topic(tps, topic_id) == \E i \in DOMAIN tps : tps[i].id = topic_id

\* The place of a registered id in the dict.
topic_index(tps, topic_id) == CHOOSE i \in DOMAIN tps : tps[i].id = topic_id

\* self._topics.get(topic_id)
get_topic(tps, topic_id) ==
    IF has_topic(tps, topic_id) THEN Some(tps[topic_index(tps, topic_id)])
    ELSE None

\* `resolution or default`: None and the empty string are falsy.
resolution_or(resolution, default) ==
    IF resolution = None \/ resolution = Some("") THEN default
    ELSE resolution[1]

\* A variant of add_topic that stores the new record over an existing id.
add_topic_overwriting(tps, topic_id, label, query, resolution) ==
    LET r == resolution_or(resolution, DEFAULT_RESOLUTION)
        topic == Topic(topic_id, label, query, r)
    IN IF r \notin DOMAIN RESOLUTION_MAP
       THEN [raised |-> Some("Invalid resolution"), topics |-> tps]
       ELSE [raised |-> IF has_topic(tps, topic_id)
                        THEN Some("already exists") ELSE None,
             topics |-> IF has_topic(tps, topic_id)
                        THEN [tps EXCEPT ![topic_index(tps, topic_id)] = topic]
                        ELSE Append(tps, topic)]

\* TopicManager.add_topic: the ValueError it raises, if any, and the dict.
add_topic(tps, topic_id, label, query, resolution) ==
    LET r == resolution_or(resolution, DEFAULT_RESOLUTION)
    IN IF has_topic(tps, topic_id)
       THEN [raised |-> Some("already exists"), topics |-> tps]
       ELSE IF r \notin DOMAIN RESOLUTION_MAP
       THEN [raised |-> Some("Invalid resolution"), topics |-> tps]
       ELSE [raised |-> None,
             topics |-> Append(tps, Topic(topic_id, label, query, r))]

\* del self._topics[topic_id]
del_topic(tps, topic_id) ==
    SelectSeq(tps, LAMBDA t : t.id # topic_id)

\* topic.status = status
set_status(tps, topic_id, status) ==
    [tps EXCEPT ![topic_index(tps, topic_id)].status = status]

\* TopicManager.pause_topic: the dict it leaves (a missing id changes nothing).
pause_topic(tps, topic_id) ==
    IF ~has_topic(tps, topic_id) THEN tps
    ELSE set_status(tps, topic_id, PAUSED)

\* TopicManager.resume_topic
resume_topic(tps, topic_id) ==
    IF ~has_topic(tps, topic_id) THEN tps
    ELSE [set_status(tps, topic_id, ACTIVE)
             EXCEPT ![topic_index(tps, topic_id)].last_error = None]

\* TopicManager.set_topic_resolution: the ValueError it raises, if any, what
\* it returns, and the dict.
set_topic_resolution(tps, topic_id, resolution) ==
    IF resolution \notin DOMAIN RESOLUTION_MAP
    THEN [raised |-> Some("Invalid resolution"), value |-> FALSE, topics |-> tps]
    ELSE IF ~has_topic(tps, topic_id)
    THEN [raised |-> None, value |-> FALSE, topics |-> tps]
    ELSE [raised |-> None, value |-> TRUE,
          topics |-> [tps EXCEPT ![topic_index(tps, topic_id)].resolution
                                     = resolution]]

\* What XAdapter.search_for_bar does when poll_topic calls it: it returns
\* ticks, or raises an XAdapterError (XRateLimitError carries reset_time).
SearchTicks(batch) ==
    [raises |-> FALSE, ticks |-> batch, type |-> "", message |-> "",
     reset_time |-> None]

SearchError(type, message, reset_time) ==
    [raises |-> TRUE, ticks |-> <<>>, type |-> type, message |-> message,
     reset_time |-> reset_time]

\* A variant of is_pollable that lets every registered topic be polled.
is_pollable_always(topic) == TRUE

\* topic.status == TopicStatus.ACTIVE, the test of poll_topic
is_pollable(topic) == topic.status = ACTIVE

\* A variant of record_poll_error that also counts the failed poll.
record_poll_error_counting(tps, i, message) ==
    [tps EXCEPT ![i].status = ERROR, ![i].last_error = Some(message),
                ![i].poll_count = @ + 1]

\* The except branches of poll_topic: status and last_error are set.
record_poll_error(tps, i, message) ==
    [tps EXCEPT ![i].status = ERROR, ![i].last_error = Some(message)]

\* The topic stats poll_topic updates after add_ticks.
record_poll(tps, i, current_time, count) ==
    [tps EXCEPT ![i].last_poll = Some(current_time),
                ![i].poll_count = @ + 1,
                ![i].tick_count = count,
                ![i].last_error = None]

\* TopicManager.poll_topic.  It awaits nothing, so it runs as one step.
\* store_ticks and store_ids are the TickStore's maps; outcome is what the
\* search does if it is called.
poll_topic(tps, store_ticks, store_ids, cap, topic_id, outcome, current_time) ==
    LET skipped == [topics |-> tps, ticks |-> store_ticks,
                    tick_ids |-> store_ids, value |-> 0,
                    searched |-> FALSE, search_raised |-> FALSE]
    IN IF ~has_topic(tps, topic_id) THEN skipped
       ELSE LET i == topic_index(tps, topic_id)
                label == tps[i].label
                res == add_ticks(store_ticks[label], store_ids[label], cap,
                                 outcome.ticks)
            IN IF ~is_pollable(tps[i]) THEN skipped
               ELSE IF outcome.raises
               THEN [topics |-> record_poll_error(tps, i, outcome.message),
                     ticks |-> store_ticks, tick_ids |-> store_ids,
                     value |-> 0, searched |-> TRUE, search_raised |-> TRUE]
               ELSE [topics |-> record_poll(tps, i, current_time,
                                            get_tick_count(res.ticks)),
                     ticks |-> [store_ticks EXCEPT ![label] = res.ticks],
                     tick_ids |-> [store_ids EXCEPT ![label] = res.ids],
                     value |-> res.added,
                     searched |-> TRUE, search_raised |-> FALSE]

\* A variant of read_path_summaries that hands the caller's flag on.
read_path_summaries_as_asked(generate_summaries) == generate_summaries

\* generate_summaries=False, what get_bars passes to generate_bars
read_path_summaries(generate_summaries) == FALSE

\* A variant of fallback_limit that asks for no bar when there is no tick.
fallback_limit_by_ticks(tks, limit) == IF tks = <<>> THEN 0 ELSE limit

\* limit=limit, what get_bars passes to generate_bars
fallback_limit(tks, limit) == limit

\* TopicManager.get_bars: what it raises, what it returns, for each returned
\* bar whether the provider was called, and the BarStore it leaves.  Every
\* branch under `if bars:` returns the bars of the BarStore.
get_bars(tps, store_ticks, store, topic_id, resolution, limit, generate_summaries, current_time) ==
    IF ~has_topic(tps, topic_id)
    THEN [raised |-> None, value |-> <<>>, invoked |-> <<>>, bar_store |-> store]
    ELSE LET topic == tps[topic_index(tps, topic_id)]
             r == resolution_or(resolution, topic.resolution)
             bars == BarStore_get_bars(store[topic.label], r, limit)
             g == generate_bars(store_ticks[topic.label], topic.label, r,
                                fallback_limit(store_ticks[topic.label], limit),
                                read_path_summaries(generate_summaries),
                                current_time, {})
         IN IF r \notin DOMAIN RESOLUTION_MAP
            THEN [raised |-> Some("Invalid resolution"), value |-> <<>>,
                  invoked |-> <<>>, bar_store |-> store]
            ELSE IF bars # <<>>
            THEN [raised |-> None, value |-> bars,
                  invoked |-> [k \in DOMAIN bars |-> FALSE],
                  bar_store |-> store]
            ELSE [raised |-> None, value |-> g.bars, invoked |-> g.invoked,
                  bar_store |-> store]

\* TopicManager.get_bars_async: get_bars with generate_bars_async.
get_bars_async(tps, store_ticks, store, topic_id, resolution, limit, generate_summaries, current_time) ==
    IF ~has_topic(tps, topic_id)
    THEN [raised |-> None, value |-> <<>>, invoked |-> <<>>, bar_store |-> store]
    ELSE LET topic == tps[topic_index(tps, topic_id)]
             r == resolution_or(resolution, topic.resolution)
             bars == BarStore_get_bars(store[topic.label], r, limit)
             g == generate_bars_async(store_ticks[topic.label], topic.label, r,
                                      fallback_limit(store_ticks[topic.label], limit),
                                      read_path_summaries(generate_summaries),
                                      current_time, {})
         IN IF r \notin DOMAIN RESOLUTION_MAP
            THEN [raised |-> Some("Invalid resolution"), value |-> <<>>,
                  invoked |-> <<>>, bar_store |-> store]
            ELSE IF bars # <<>>
            THEN [raised |-> None, value |-> bars,
                  invoked |-> [k \in DOMAIN bars |-> FALSE],
                  bar_store |-> store]
            ELSE [raised |-> None, value |-> g.bars, invoked |-> g.invoked,
                  bar_store |-> store]

\* A variant of current_bar_window that never finds the bar stored.
current_bar_window_no_skip(tks, bars, resolution) ==
    LET tick_range == get_time_range(tks)
        resolution_seconds == RESOLUTION_MAP[resolution]
        bar_end == floor_to_resolution(tick_range[1][2], resolution_seconds)
        bar_start == bar_end - resolution_seconds
    IN IF tick_range = None
       THEN [skip |-> TRUE, start |-> 0, end |-> 0]
       ELSE [skip |-> FALSE, start |-> bar_start, end |-> bar_end]

\* BarScheduler._generate_current_bar for one topic of its active_topics:
\* the window before the one of the newest tick, unless the store already
\* holds that bar or a newer one.  skip tells that nothing is generated.
current_bar_window(tks, bars, resolution) ==
    LET tick_range == get_time_range(tks)
        resolution_seconds == RESOLUTION_MAP[resolution]
        bar_end == floor_to_resolution(tick_range[1][2], resolution_seconds)
        bar_start == bar_end - resolution_seconds
        existing == BarStore_get_latest_bar(bars, resolution)
    IN IF tick_range = None
       THEN [skip |-> TRUE, start |-> 0, end |-> 0]
       ELSE IF existing # None /\ existing[1].start >= bar_start
       THEN [skip |-> TRUE, start |-> bar_start, end |-> bar_end]
       ELSE [skip |-> FALSE, start |-> bar_start, end |-> bar_end]

\* add_topic(topic_id, label, query, resolution); the query is the label.
AddTopic(topic_id, label, resolution) ==
    /\ LET a == add_topic(topics, topic_id, label, label, resolution)
       IN /\ topics' = a.topics
          /\ ret' = [op |-> "add_topic", topic |-> topic_id,
                     args |-> [label |-> label, resolution |-> resolution],
                     raised |-> a.raised]
    /\ UNCHANGED <<limiter_vars, store_vars, bar_store, poller_pc,
                   poller_queue, sched_inflight, pending, bars_cycle,
               loop_vars>>

\* remove_topic(topic_id): the ticks and the bars of the label are cleared
\* and the record is deleted.
RemoveTopic(topic_id) ==
    /\ IF has_topic(topics, topic_id)
       THEN LET label == topics[topic_index(topics, topic_id)].label
            IN /\ ticks' = [ticks EXCEPT ![label] = <<>>]
               /\ tick_ids' = [tick_ids EXCEPT ![label] = {}]
               /\ ever_added' = [ever_added EXCEPT ![label] = {}]
               /\ bar_store' = [bar_store EXCEPT
                                   ![label] = BarStore_clear_topic(@)]
               /\ topics' = del_topic(topics, topic_id)
       ELSE UNCHANGED <<ticks, tick_ids, ever_added, bar_store, topics>>
    /\ pending' = [pending EXCEPT ![topic_id] = None]
    /\ ret' = [op |-> "remove_topic", topic |-> topic_id,
               value |-> has_topic(topics, topic_id)]
    /\ UNCHANGED <<limiter_vars, max_ticks_per_topic, poller_pc, poller_queue,
                   sched_inflight, bars_cycle, loop_vars>>

\* pause_topic(topic_id)
PauseTopic(topic_id) ==
    /\ topics' = pause_topic(topics, topic_id)
    /\ pending' = [pending EXCEPT ![topic_id] = None]
    /\ ret' = [op |-> "pause_topic", topic |-> topic_id,
               value |-> has_topic(topics, topic_id)]
    /\ UNCHANGED <<limiter_vars, store_vars, bar_store, poller_pc,
                   poller_queue, sched_inflight, bars_cycle, loop_vars>>

\* resume_topic(topic_id)
ResumeTopic(topic_id) ==
    /\ topics' = resume_topic(topics, topic_id)
    /\ pending' = [pending EXCEPT ![topic_id] = None]
    /\ ret' = [op |-> "resume_topic", topic |-> topic_id,
               value |-> has_topic(topics, topic_id)]
    /\ UNCHANGED <<limiter_vars, store_vars, bar_store, poller_pc,
                   poller_queue, sched_inflight, bars_cycle, loop_vars>>

\* set_topic_resolution(topic_id, resolution)
SetTopicResolution(topic_id, resolution) ==
    /\ LET a == set_topic_resolution(topics, topic_id, resolution)
       IN /\ topics' = a.topics
          /\ ret' = [op |-> "set_topic_resolution", topic |-> topic_id,
                     args |-> [resolution |-> resolution],
                     raised |-> a.raised, value |-> a.value]
    /\ UNCHANGED <<limiter_vars, store_vars, bar_store, poller_pc,
                   poller_queue, sched_inflight, pending, bars_cycle,
               loop_vars>>

\* One call of poll_topic(topic_id), by the TickPoller or for a request.
\* enumerated holds the active topics when the call opens a poller cycle.
Poll(topic_id, outcome, by, enumerated) ==
    /\ LET p == poll_topic(topics, ticks, tick_ids, max_ticks_per_topic,
                           topic_id, outcome, now)
       IN /\ topics' = p.topics
          /\ ticks' = p.ticks
          /\ tick_ids' = p.tick_ids
          /\ ever_added' =
                IF p.searched /\ ~p.search_raised
                THEN [ever_added EXCEPT
                         ![topics[topic_index(topics, topic_id)].label] =
                            @ \cup {outcome.ticks[k].id : k \in DOMAIN outcome.ticks}]
                ELSE ever_added
          /\ pending' =
                IF ~p.searched \/ by # "poller" THEN pending
                ELSE [pending EXCEPT
                         ![topic_id] = IF p.search_raised
                                       THEN Some([type |-> outcome.type,
                                                  reset_time |-> outcome.reset_time])
                                       ELSE None]
          /\ ret' = [op |-> "poll_topic", topic |-> topic_id, by |-> by,
                     enumerated |-> enumerated,
                     value |-> p.value, searched |-> p.searched,
                     search_raised |-> p.search_raised,
                     error |-> IF p.search_raised THEN Some(outcome.message)
                               ELSE None]
    /\ UNCHANGED <<limiter_vars, max_ticks_per_topic, bar_store,
                   sched_inflight, bars_cycle, loop_vars>>

\* POST /topics/{id}/poll: poll_topic called for a request.
PollTopic(topic_id, outcome) ==
    /\ Poll(topic_id, outcome, "request", None)
    /\ UNCHANGED <<poller_pc, poller_queue>>

\* [t for t in topics if t.status == TopicStatus.ACTIVE], as ids
active_topic_ids(tps) ==
    LET active_topics == SelectSeq(tps, LAMBDA t : t.status = ACTIVE)
    IN [k \in DOMAIN active_topics |-> active_topics[k].id]

\* An iteration of _poll_loop up to its first await that suspends:
\* _poll_all_topics enumerates the active topics and polls the first one
\* (poll_topic awaits nothing); asyncio.sleep(0.5) follows, where the other
\* tasks run.  Without an active topic it returns and the loop sleeps
\* poll_interval again.
PollerCycle(outcome) ==
    /\ poller_pc = "sleeping"
    /\ LET active_ids == active_topic_ids(topics)
       IN IF active_ids = <<>>
          THEN /\ ret' = [op |-> "poll_all_topics", topic |-> "",
                          by |-> "poller", enumerated |-> Some(<<>>)]
               /\ UNCHANGED <<limiter_vars, store_vars, manager_vars, loop_vars>>
          ELSE /\ Poll(Head(active_ids), outcome, "poller", Some(active_ids))
               /\ poller_queue' = Tail(active_ids)
               /\ poller_pc' = IF Tail(active_ids) = <<>> THEN "sleeping"
                               ELSE "polling"

\* The next topic of the cycle is polled, then asyncio.sleep(0.5) again.
\* After the last topic the loop sleeps poll_interval.
PollerPollNext(outcome) ==
    /\ poller_pc = "polling"
    /\ poller_queue # <<>>
    /\ Poll(Head(poller_queue), outcome, "poller", None)
    /\ poller_queue' = Tail(poller_queue)
    /\ poller_pc' = IF Tail(poller_queue) = <<>> THEN "sleeping" ELSE "polling"

\* A variant of cancel_at in which the cancellation is not delivered.
cancel_ignored(pc) == pc

\* self._task.cancel() followed by `await self._task`: CancelledError is
\* raised inside the sleep the loop is suspended at; `except Exception`
\* does not catch it, so the task ends wherever it was.
cancel_at(pc) == "stopped"

\* TickPoller.stop(): _running is cleared; the task, if there is one, is
\* cancelled and awaited, and _task is set to None.  The loop is suspended
\* at one of its two sleeps, the only awaits of _poll_loop and
\* _poll_all_topics that suspend.
TickPoller_stop ==
    /\ poller_running' = FALSE
    /\ poller_pc' = IF poller_pc = "stopped" THEN poller_pc
                    ELSE cancel_at(poller_pc)
    /\ poller_tasks' = IF poller_pc # "stopped" /\ poller_pc' = "stopped"
                       THEN poller_tasks - 1 ELSE poller_tasks
    /\ poller_queue' = <<>>
    /\ ret' = [op |-> "poller_stop", topic |-> "", by |-> "operator",
               cancelled_at |-> poller_pc, left |-> poller_queue]
    /\ UNCHANGED <<limiter_vars, store_vars, topics, bar_store,
                   sched_inflight, pending, bars_cycle, grok_models,
                   window_vars, sched_running, sched_tasks, sched_pc,
                   sched_queue>>

\* stop() of a poller whose task exists.
PollerStop ==
    /\ poller_pc # "stopped"
    /\ TickPoller_stop

\* A variant of already_running that finds no poller or scheduler running.
already_running_never(running) == FALSE

\* `if self._running: return`, the test start() opens with.
already_running(running) == running

\* TickPoller.start(): unless the poller runs already, _running is set and
\* a new task runs _poll_loop.
TickPoller_start ==
    /\ IF already_running(poller_running)
       THEN UNCHANGED <<poller_running, poller_tasks, poller_pc>>
       ELSE /\ poller_running' = TRUE
            /\ poller_tasks' = poller_tasks + 1
            /\ poller_pc' = "sleeping"
    /\ ret' = [op |-> "poller_start", topic |-> "", by |-> "operator",
               created |-> ~already_running(poller_running)]
    /\ UNCHANGED <<limiter_vars, store_vars, topics, bar_store, poller_queue,
                   sched_inflight, pending, bars_cycle, grok_models,
                   window_vars, sched_running, sched_tasks, sched_pc,
                   sched_queue>>

\* start() of a stopped poller.
PollerStart ==
    /\ poller_pc = "stopped"
    /\ TickPoller_start

\* get_bars(topic_id, resolution, limit, generate_summaries)
GetBars(topic_id, resolution, limit, generate_summaries) ==
    /\ LET g == get_bars(topics, ticks, bar_store, topic_id, resolution,
                         limit, generate_summaries, now)
       IN /\ bar_store' = g.bar_store
          /\ ret' = [op |-> "get_bars", topic |-> topic_id,
                     args |-> [resolution |-> resolution, limit |-> limit,
                               generate_summaries |-> generate_summaries],
                     raised |-> g.raised, value |-> g.value,
                     invoked |-> g.invoked]
    /\ UNCHANGED <<limiter_vars, store_vars, topics, poller_pc, poller_queue,
                   sched_inflight, pending, bars_cycle, loop_vars>>

\* get_bars_async(topic_id, resolution, limit, generate_summaries)
GetBarsAsync(topic_id, resolution, limit, generate_summaries) ==
    /\ LET g == get_bars_async(topics, ticks, bar_store, topic_id, resolution,
                               limit, generate_summaries, now)
       IN /\ bar_store' = g.bar_store
          /\ ret' = [op |-> "get_bars_async", topic |-> topic_id,
                     args |-> [resolution |-> resolution, limit |-> limit,
                               generate_summaries |-> generate_summaries],
                     raised |-> g.raised, value |-> g.value,
                     invoked |-> g.invoked]
    /\ UNCHANGED <<limiter_vars, store_vars, topics, poller_pc, poller_queue,
                   sched_inflight, pending, bars_cycle, loop_vars>>

\* A variant of put_bar that adds the bar and replaces none.
put_bar_appending(bars, bar) == bars \cup {bar}

\* await self.bar_store.add_bar(bar), as the scheduler calls it for the bar
\* of a firing and for each bar of a backfill.
put_bar(bars, bar) == BarStore_add_bar(bars, bar)

\* _generate_current_bar for one active topic, up to the await of
\* generate_bar_async: the bar is being generated.
SchedulerGenerate(topic_id, resolution, provider_raises) ==
    /\ sched_inflight = None
    /\ has_topic(topics, topic_id)
    /\ LET topic == topics[topic_index(topics, topic_id)]
           w == current_bar_window(ticks[topic.label], bar_store[topic.label],
                                   resolution)
           g == generate_bar_async(ticks[topic.label], topic.label, w.start,
                                   w.end, resolution, TRUE, provider_raises)
       IN /\ topic.status = ACTIVE
          /\ ~w.skip
          /\ sched_inflight' = Some(g.bar)
          /\ ret' = [op |-> "generate_current_bar", topic |-> topic_id,
                     value |-> g.bar]
    /\ UNCHANGED <<limiter_vars, store_vars, topics, bar_store, poller_pc,
                   poller_queue, pending, bars_cycle, loop_vars>>

\* _generate_current_bar after generate_bar_async returned: add_bar(bar).
SchedulerStore ==
    /\ sched_inflight # None
    /\ LET bar == sched_inflight[1]
       IN /\ bar_store' = [bar_store EXCEPT ![bar.topic] = put_bar(@, bar)]
          /\ ret' = [op |-> "add_bar", topic |-> bar.topic, value |-> bar,
                     by |-> "scheduler",
                     over |-> {b \in bar_store[bar.topic] :
                                 /\ b.resolution = bar.resolution
                                 /\ b.start = bar.start}]
    /\ sched_inflight' = None
    /\ UNCHANGED <<limiter_vars, store_vars, topics, poller_pc, poller_queue,
                   pending, bars_cycle, loop_vars>>

\* _generate_current_bar for one active topic that it passes over: the
\* topic has no tick, or the BarStore's latest bar of the resolution starts
\* at or after the window (`continue`).  Nothing is generated or stored.
SchedulerSkip(topic_id, resolution) ==
    /\ IF sched_inflight = None THEN TRUE
       ELSE sched_inflight[1].resolution # resolution
    /\ has_topic(topics, topic_id)
    /\ LET topic == topics[topic_index(topics, topic_id)]
           w == current_bar_window(ticks[topic.label], bar_store[topic.label],
                                   resolution)
       IN /\ topic.status = ACTIVE
          /\ w.skip
          /\ ret' = [op |-> "skip_current_bar", topic |-> topic_id,
                     label |-> topic.label, resolution |-> resolution,
                     has_ticks |-> ticks[topic.label] # <<>>,
                     start |-> w.start, end |-> w.end]
    /\ UNCHANGED <<limiter_vars, store_vars, manager_vars, loop_vars>>

\* MIN_RESOLUTION_SECONDS, also the default of TickPoller.poll_interval
MIN_RESOLUTION_SECONDS == 15

\* get_polling_window(min_age_seconds=15), as poll_topic calls it
min_age_seconds == 15

\* timedelta(seconds=12) of search_recent and timedelta(seconds=20) of
\* _get_time_bounds
min_allowed_age == 12
safe_end_age == 20

\* minutes: int = 10
default_minutes == 10

\* asyncio.sleep(0.5), in half seconds
topic_delay == 1

\* The wall clock, in half seconds.
wall_clock == 2 * now + half

\* A variant of window_end in which the window ends now.
window_end_now(t, min_age) == t

\* end = now - timedelta(seconds=min_age_seconds), in half seconds
window_end(t, min_age) == t - 2 * min_age

\* get_polling_window at the instant t, in half seconds
get_polling_window(t, min_age) ==
    [start |-> window_end(t, min_age) - 2 * MIN_RESOLUTION_SECONDS,
     end |-> window_end(t, min_age)]

\* XAdapter._format_time: the whole second of an instant; the fraction is
\* dropped.
_format_time(t) == t \div 2

\* XAdapter._get_time_bounds at the instant t
_get_time_bounds(t, minutes) ==
    <<_format_time(t - 2 * safe_end_age - 120 * minutes),
      _format_time(t - 2 * safe_end_age)>>

\* XAdapter.search_recent at the instant t, up to the request: whether
\* upstream is contacted and the window, in whole seconds, it is asked
\* for.  Without both bounds the window is the one of _get_time_bounds.
search_recent(start_time, end_time, minutes, t) ==
    IF start_time # None /\ end_time # None
    THEN IF end_time[1] > t - 2 * min_allowed_age
         THEN [contacted |-> FALSE, window |-> None]
         ELSE [contacted |-> TRUE,
               window |-> Some(<<_format_time(start_time[1]),
                                 _format_time(end_time[1])>>)]
    ELSE [contacted |-> TRUE, window |-> Some(_get_time_bounds(t, minutes))]

\* XAdapter.search_for_bar(query, topic, start_time, end_time) for the
\* window of MIN_RESOLUTION_SECONDS that ended `age` half seconds ago.
SearchForBar(age) ==
    /\ LET end_time == wall_clock - age
           start_time == end_time - 2 * MIN_RESOLUTION_SECONDS
           s == search_recent(Some(start_time), Some(end_time),
                              default_minutes, wall_clock)
       IN ret' = [op |-> "search_for_bar", topic |-> "", at |-> wall_clock,
                  end_time |-> end_time, contacted |-> s.contacted,
                  window |-> s.window]
    /\ UNCHANGED <<limiter_vars, store_vars, manager_vars, loop_vars>>

\* poll_topic(topic_id) called by the poller at the wall clock, with the
\* time it takes: the search evaluates the window `lag` half seconds after
\* get_polling_window computed it, the poll returns after `took`, the
\* poller sleeps 0.5 s and, after the last topic of the cycle,
\* poll_interval.  The search finds no tick.
TimedPoll(topic_id, lag, took, rest, enumerated) ==
    /\ LET t == wall_clock
           w == get_polling_window(t, min_age_seconds)
           s == search_recent(Some(w.start), Some(w.end), default_minutes,
                              t + lag)
           p == poll_topic(topics, ticks, tick_ids, max_ticks_per_topic,
                           topic_id, SearchTicks(<<>>), now)
           after == t + took + topic_delay
                      + (IF rest = <<>> THEN 2 * MIN_RESOLUTION_SECONDS ELSE 0)
       IN /\ topics' = p.topics
          /\ poll_windows' =
                IF p.searched /\ s.contacted
                THEN [poll_windows EXCEPT ![topic_id] = Append(@, s.window[1])]
                ELSE poll_windows
          /\ now' = after \div 2
          /\ half' = after % 2
          /\ ret' = [op |-> "poll_topic", topic |-> topic_id, by |-> "poller",
                     enumerated |-> enumerated, value |-> p.value,
                     searched |-> p.searched, search_raised |-> FALSE,
                     error |-> None, at |-> t + lag,
                     contacted |-> s.contacted, window |-> s.window]
    /\ poller_queue' = rest
    /\ poller_pc' = IF rest = <<>> THEN "sleeping" ELSE "polling"
    /\ UNCHANGED <<sliding_windows, rl_pc, rl_wake, grants, bucket_vars,
                   store_vars, bar_store, sched_inflight, pending, bars_cycle,
                   grok_models, task_vars>>

\* An iteration of _poll_loop whose sleep of poll_interval has passed,
\* with the wall clock: the first active topic is polled; without one the
\* loop sleeps poll_interval again.
PollerCycleTimed(lag, took) ==
    /\ poller_pc = "sleeping"
    /\ LET active_ids == active_topic_ids(topics)
       IN IF active_ids = <<>>
          THEN /\ now' = now + MIN_RESOLUTION_SECONDS
               /\ ret' = [op |-> "poll_all_topics", topic |-> "",
                          by |-> "poller", enumerated |-> Some(<<>>)]
               /\ UNCHANGED <<sliding_windows, rl_pc, rl_wake, grants,
                              bucket_vars, store_vars, manager_vars, loop_vars>>
          ELSE TimedPoll(Head(active_ids), lag, took, Tail(active_ids),
                         Some(active_ids))

\* The next topic of the cycle is polled, with the wall clock.
PollerPollNextTimed(lag, took) ==
    /\ poller_pc = "polling"
    /\ poller_queue # <<>>
    /\ TimedPoll(Head(poller_queue), lag, took, Tail(poller_queue), None)

\* BarScheduler.stop: _running is cleared, every task of _tasks is
\* cancelled and awaited, and _tasks is emptied.  A task is suspended in its
\* sleep or in an await of _generate_current_bar; CancelledError ends it
\* there (`except asyncio.CancelledError: break`, and `except Exception`
\* does not catch it), so the topics left of its cycle are dropped.
BarScheduler_stop ==
    /\ sched_running' = FALSE
    /\ sched_pc' = [r \in DOMAIN RESOLUTION_MAP |->
                      IF sched_pc[r] = "stopped" THEN "stopped"
                      ELSE cancel_at(sched_pc[r])]
    /\ sched_tasks' = [r \in DOMAIN RESOLUTION_MAP |->
                         IF sched_pc[r] # "stopped" /\ sched_pc'[r] = "stopped"
                         THEN sched_tasks[r] - 1 ELSE sched_tasks[r]]
    /\ sched_queue' = [r \in DOMAIN RESOLUTION_MAP |-> <<>>]
    /\ ret' = [op |-> "scheduler_stop", topic |-> "", by |-> "operator"]
    /\ UNCHANGED <<limiter_vars, store_vars, manager_vars, grok_models,
                   window_vars, poller_running, poller_tasks>>

\* BarScheduler.start up to its first await: nothing when _running is set,
\* else _running is set and a task per resolution is created, each at the
\* sleep to its next boundary.  _generate_initial_bars follows
\* (GenerateBarsForTopic, StoreNextBar).
BarScheduler_start ==
    /\ IF already_running(sched_running)
       THEN UNCHANGED <<sched_running, sched_tasks, sched_pc>>
       ELSE /\ sched_running' = TRUE
            /\ sched_tasks' = [r \in DOMAIN RESOLUTION_MAP |->
                                 sched_tasks[r] + 1]
            /\ sched_pc' = [r \in DOMAIN RESOLUTION_MAP |-> "waiting"]
    /\ ret' = [op |-> "scheduler_start", topic |-> "", by |-> "operator",
               created |-> ~already_running(sched_running)]
    /\ UNCHANGED <<limiter_vars, store_vars, manager_vars, grok_models,
                   window_vars, poller_running, poller_tasks, sched_queue>>

\* [t for t in topics if t.status == TopicStatus.ACTIVE], as the labels
\* _generate_current_bar reads of the topics it holds
active_topic_labels(tps) ==
    LET active_topics == SelectSeq(tps, LAMBDA t : t.status = ACTIVE)
    IN [k \in DOMAIN active_topics |-> active_topics[k].label]

\* An iteration of _generation_loop(resolution) after its sleep:
\* _generate_current_bar enumerates the active topics; without one it
\* returns and the loop sleeps to the next boundary.
SchedulerFire(resolution) ==
    /\ sched_pc[resolution] = "waiting"
    /\ LET active_labels == active_topic_labels(topics)
       IN /\ sched_queue' = [sched_queue EXCEPT ![resolution] = active_labels]
          /\ sched_pc' = [sched_pc EXCEPT ![resolution] =
                             IF active_labels = <<>> THEN "waiting"
                             ELSE "generating"]
          /\ ret' = [op |-> "generate_current_bar", topic |-> "",
                     resolution |-> resolution, enumerated |-> active_labels]
    /\ UNCHANGED <<limiter_vars, store_vars, manager_vars, grok_models,
                   window_vars, poller_running, poller_tasks, sched_running,
                   sched_tasks>>

\* A variant of rest_after_error in which the error leaves the cycle.
rest_after_error_abort(queue) == <<>>

\* `except Exception` inside the `for topic in active_topics` of
\* _generate_current_bar: the error is logged and the for loop goes on
\* with the topics after the one that raised.
rest_after_error(queue) == Tail(queue)

\* The body of `for topic in active_topics` for the next topic of the
\* cycle: it is passed over, or its bar is generated and stored, or an
\* awaited call raises (raises), which the body's except logs.  After the
\* last topic the loop sleeps to the next boundary.
SchedulerTopic(resolution, raises) ==
    /\ sched_pc[resolution] = "generating"
    /\ sched_queue[resolution] # <<>>
    /\ LET label == Head(sched_queue[resolution])
           w == current_bar_window(ticks[label], bar_store[label], resolution)
           g == generate_bar_async(ticks[label], label, w.start, w.end,
                                   resolution, TRUE, FALSE)
           stored == ~w.skip /\ ~raises
           rest == IF raises THEN rest_after_error(sched_queue[resolution])
                   ELSE Tail(sched_queue[resolution])
       IN /\ bar_store' = IF stored
                          THEN [bar_store EXCEPT ![label] = put_bar(@, g.bar)]
                          ELSE bar_store
          /\ sched_queue' = [sched_queue EXCEPT ![resolution] = rest]
          /\ sched_pc' = [sched_pc EXCEPT ![resolution] =
                             IF rest = <<>> THEN "waiting" ELSE "generating"]
          /\ ret' = [op |-> "generate_current_bar_topic", topic |-> label,
                     resolution |-> resolution, raised |-> raises,
                     stored |-> stored, left |-> rest]
    /\ UNCHANGED <<limiter_vars, store_vars, topics, poller_pc, poller_queue,
                   sched_inflight, pending, bars_cycle, grok_models,
                   window_vars, poller_running, poller_tasks, sched_running,
                   sched_tasks>>

\* limit=50, the number of bars of the startup backfill and the default of
\* regenerate_topic.
initial_backfill_limit == 50

\* _generate_bars_for_topic up to the end of `await generate_bars_async`:
\* the bars are generated, most recent first, and none is stored yet.  It
\* is called by _generate_initial_bars for an active topic, without
\* summaries ("startup"), and by regenerate_topic for a registered topic
\* ("regenerate").  limit stands for the callers' limit.
GenerateBarsForTopic(topic_id, resolution, limit, generate_summaries, failing, by) ==
    /\ bars_cycle = None
    /\ has_topic(topics, topic_id)
    /\ by = "startup"
          => /\ topics[topic_index(topics, topic_id)].status = ACTIVE
             /\ ~generate_summaries
    /\ LET label == topics[topic_index(topics, topic_id)].label
           g == generate_bars_async(ticks[label], label, resolution, limit,
                                    generate_summaries, now, failing)
       IN /\ bars_cycle' = IF g.bars = <<>> THEN None
                           ELSE Some([topic |-> label, by |-> by,
                                      bars |-> g.bars, done |-> 0])
          /\ ret' = [op |-> "generate_bars_for_topic", topic |-> topic_id,
                     by |-> by, value |-> g.bars]
    /\ UNCHANGED <<limiter_vars, store_vars, topics, bar_store, poller_pc,
                   poller_queue, sched_inflight, pending, loop_vars>>

\* max(1, int(tick_span_seconds / resolution_seconds) + 1)
max_bars_with_data(tick_range, resolution_seconds) ==
    Max(1, ((tick_range[1][2] - tick_range[1][1]) \div resolution_seconds) + 1)

\* POST /topics/{id}/backfill without poll_first, up to the end of `await
\* generate_bars_async`: the bars end one resolution after the newest tick
\* and are no more than the span of the ticks can fill.  Without a topic,
\* with an unsupported resolution or without ticks nothing is generated.
ApiBackfill(topic_id, resolution, count, generate_summaries, failing) ==
    /\ bars_cycle = None
    /\ has_topic(topics, topic_id)
    /\ resolution \in DOMAIN RESOLUTION_MAP
    /\ LET label == topics[topic_index(topics, topic_id)].label
           tick_range == get_time_range(ticks[label])
           resolution_seconds == RESOLUTION_MAP[resolution]
           effective_count ==
               Min(count, max_bars_with_data(tick_range, resolution_seconds))
           g == generate_bars_async(ticks[label], label, resolution,
                                    effective_count, generate_summaries,
                                    tick_range[1][2] + resolution_seconds,
                                    failing)
       IN /\ get_tick_count(ticks[label]) # 0
          /\ bars_cycle' = IF g.bars = <<>> THEN None
                           ELSE Some([topic |-> label, by |-> "api",
                                      bars |-> g.bars, done |-> 0])
          /\ ret' = [op |-> "generate_bars_for_topic", topic |-> topic_id,
                     by |-> "api", value |-> g.bars]
    /\ UNCHANGED <<limiter_vars, store_vars, topics, bar_store, poller_pc,
                   poller_queue, sched_inflight, pending, loop_vars>>

\* One turn of `for bar in bars: await self.bar_store.add_bar(bar)`: the
\* next bar of the list, most recent first, is put.  Each await is a point
\* where the other tasks may run.
StoreNextBar ==
    /\ bars_cycle # None
    /\ LET c == bars_cycle[1]
           bar == c.bars[c.done + 1]
       IN /\ bar_store' = [bar_store EXCEPT ![c.topic] = put_bar(@, bar)]
          /\ bars_cycle' = IF c.done + 1 = Len(c.bars) THEN None
                           ELSE Some([c EXCEPT !.done = c.done + 1])
          /\ ret' = [op |-> "add_bar", topic |-> c.topic, value |-> bar,
                     by |-> c.by,
                     over |-> {b \in bar_store[c.topic] :
                                 /\ b.resolution = bar.resolution
                                 /\ b.start = bar.start}]
    /\ UNCHANGED <<limiter_vars, store_vars, topics, poller_pc, poller_queue,
                   sched_inflight, pending, loop_vars>>

\* A second passes on the wall clock.
Advance ==
    /\ now' = now + 1
    /\ ret' = [op |-> "clock", topic |-> ""]
    /\ UNCHANGED <<sliding_windows, rl_pc, rl_wake, grants, bucket_vars,
                   store_vars, manager_vars, loop_vars>>

(***************************************************************************)
(* GrokAdapter: summarize_bar and create_topic_digest.  Of a BarSummary    *)
(* the sentiment, the engagement level and the post count are modelled, of *)
(* a TopicDigest the sentiment trend and the posts it counts; the texts    *)
(* and lists built from the same values are left out.                      *)
(***************************************************************************)

\* What the client answers to chat.parse(schema): a payload of the schema,
\* a payload that is not of the schema, or an exception.
LlmPayload(schema, sentiment) ==
    [raises |-> FALSE, kind |-> "ok",
     payload |-> [type |-> schema, sentiment |-> sentiment, post_count |-> 0,
                  engagement_level |-> "medium"]]

LlmIllTyped ==
    [raises |-> FALSE, kind |-> "ill_typed", payload |-> [type |-> "str"]]

LlmRaises == [raises |-> TRUE, kind |-> "raises", payload |-> [type |-> "none"]]

\* GrokAdapter._structured_call: None without a client and on any
\* exception of the call, else the parsed payload.
_structured_call(is_live, response) ==
    IF ~is_live THEN None
    ELSE IF response.raises THEN None
    ELSE Some(response.payload)

\* sum(bar.get('post_count', 0) for bar in bars_data)
total_posts(bars_data) ==
    LET F[n \in 0..Len(bars_data)] ==
            IF n = 0 THEN 0 ELSE F[n - 1] + bars_data[n].post_count
    IN F[Len(bars_data)]

\* GrokAdapter._fallback_bar_summary: sentiment and engagement are what
\* rng.choice draws.
_fallback_bar_summary(posts, sentiment, engagement) ==
    IF Len(posts) = 0
    THEN [type |-> "BarSummary", sentiment |-> "neutral", post_count |-> 0,
          engagement_level |-> "low"]
    ELSE [type |-> "BarSummary", sentiment |-> sentiment,
          post_count |-> Len(posts), engagement_level |-> engagement]

\* GrokAdapter._fallback_topic_digest: sentiment_trend is what rng.choice
\* draws.
_fallback_topic_digest(bars_data, sentiment_trend) ==
    IF total_posts(bars_data) = 0
    THEN [type |-> "TopicDigest", sentiment_trend |-> "stable", total_posts |-> 0]
    ELSE [type |-> "TopicDigest", sentiment_trend |-> sentiment_trend,
          total_posts |-> total_posts(bars_data)]

\* GrokAdapter.summarize_bar: what it raises and what it returns.  called
\* tells that _structured_call was made.
Grok_summarize_bar(posts, is_live, response, sentiment, engagement) ==
    LET payload == _structured_call(is_live, response)
        is_bar_summary == IF payload = None THEN FALSE
                          ELSE payload[1].type = "BarSummary"
    IN IF posts = <<>>
       THEN [raised |-> None, called |-> FALSE,
             value |-> Some([type |-> "BarSummary", sentiment |-> "neutral",
                             post_count |-> 0, engagement_level |-> "low"])]
       ELSE IF is_bar_summary
       THEN [raised |-> None, called |-> TRUE,
             value |-> Some([payload[1] EXCEPT !.post_count = Len(posts)])]
       ELSE [raised |-> None, called |-> TRUE,
             value |-> Some(_fallback_bar_summary(posts, sentiment, engagement))]

\* GrokAdapter.create_topic_digest: what it raises and what it returns.
Grok_create_topic_digest(bars_data, is_live, response, sentiment_trend) ==
    LET payload == _structured_call(is_live, response)
        is_topic_digest == IF payload = None THEN FALSE
                           ELSE payload[1].type = "TopicDigest"
    IN IF bars_data = <<>>
       THEN [raised |-> None, called |-> FALSE,
             value |-> Some([type |-> "TopicDigest",
                             sentiment_trend |-> "stable", total_posts |-> 0])]
       ELSE IF is_topic_digest
       THEN [raised |-> None, called |-> TRUE, value |-> Some(payload[1])]
       ELSE [raised |-> None, called |-> TRUE,
             value |-> Some(_fallback_topic_digest(bars_data, sentiment_trend))]

\* summarize_bar(topic, posts, start_time, end_time) over the topic's ticks.
\* The texts of the posts reach the prompt only.
SummarizeBar(topic, is_live, response, sentiment, engagement) ==
    /\ LET r == Grok_summarize_bar(ticks[topic], is_live, response, sentiment,
                                   engagement)
       IN ret' = [op |-> "summarize_bar", topic |-> topic,
                  args |-> [is_live |-> is_live, response |-> response.kind,
                            posts |-> Len(ticks[topic])],
                  called |-> r.called, raised |-> r.raised, value |-> r.value]
    /\ UNCHANGED <<limiter_vars, store_vars, manager_vars, loop_vars>>

\* create_topic_digest(topic, bars_data, lookback_hours) over the bars that
\* generate_bars builds from the topic's ticks.
CreateTopicDigest(topic, resolution, limit, end_time, is_live, response, sentiment_trend) ==
    /\ LET bars_data == generate_bars(ticks[topic], topic, resolution, limit,
                                      FALSE, end_time, {}).bars
           r == Grok_create_topic_digest(bars_data, is_live, response,
                                         sentiment_trend)
       IN ret' = [op |-> "create_topic_digest", topic |-> topic,
                  args |-> [is_live |-> is_live, response |-> response.kind,
                            bars |-> Len(bars_data)],
                  called |-> r.called, raised |-> r.raised, value |-> r.value]
    /\ UNCHANGED <<limiter_vars, store_vars, manager_vars, loop_vars>>

\* The fields class BarSummary declares.
BarSummaryFields ==
    {"summary", "key_themes", "sentiment", "post_count", "engagement_level"}

\* BarSummary(**kwargs): a pydantic model keeps the keywords that are
\* declared fields and drops the others.
BarSummary(kwargs) ==
    [f \in (DOMAIN kwargs \cap BarSummaryFields) \cup {"type"} |->
        IF f = "type" THEN "BarSummary" ELSE kwargs[f]]

\* obj.name: the value of the attribute, or AttributeError without it.
getattr(obj, name) ==
    IF name \in DOMAIN obj
    THEN [raised |-> None, value |-> Some(obj[name])]
    ELSE [raised |-> Some("AttributeError"), value |-> None]

\* [tick.id for tick in ticks[:2]]
first_two_ids(tks) == [k \in 1..Min(2, Len(tks)) |-> tks[k].id]

\* mocks.mock_bar_summary: sentiment and engagement are what rng.choice
\* draws; highlight_posts is passed to BarSummary as a keyword.
mock_bar_summary(tks, sentiment, engagement) ==
    IF Len(tks) = 0
    THEN BarSummary([sentiment |-> "neutral", post_count |-> 0,
                     engagement_level |-> "low"])
    ELSE BarSummary([sentiment |-> sentiment, post_count |-> Len(tks),
                     engagement_level |-> engagement,
                     highlight_posts |-> Some(first_two_ids(tks))])

\* generate_bar(topic, start, end, resolution) of a BarGenerator whose
\* provider is mock_bar_summary: summarize_bar(topic=, ticks=, start_time=,
\* end_time=) is called with the ticks of the window when there is one.
\* highlight_posts is what reading bar.summary.highlight_posts gives, as
\* Bar.to_dict and the API's bar response read it.
MockSummaryBar(topic, start, end, resolution, sentiment, engagement) ==
    /\ LET window == get_ticks(ticks[topic], Some(start), Some(end))
           g == generate_bar(ticks[topic], topic, start, end, resolution,
                             FALSE, FALSE)
           bar == IF window = <<>> THEN g.bar
                  ELSE [g.bar EXCEPT !.summary =
                           Some(mock_bar_summary(window, sentiment, engagement))]
       IN ret' = [op |-> "mock_summary_bar", topic |-> topic,
                  value |-> bar,
                  highlight_posts |->
                      IF bar.summary = None THEN None
                      ELSE Some(getattr(bar.summary[1], "highlight_posts"))]
    /\ UNCHANGED <<limiter_vars, store_vars, manager_vars, loop_vars>>

\* Bar.to_dict: reads summary.highlight_posts of a bar that has a summary,
\* and raises what that read raises.
Bar_to_dict(bar) ==
    LET highlight_posts ==
            IF bar.summary = None THEN [raised |-> None, value |-> Some(<<>>)]
            ELSE getattr(bar.summary[1], "highlight_posts")
    IN [raised |-> highlight_posts.raised,
        value |-> IF highlight_posts.raised = None THEN Some(bar) ELSE None]

\* bars[:lookback_bars]
first_bars(bars, lookback_bars) == SubSeq(bars, 1, Min(lookback_bars, Len(bars)))

\* The digest create_digest builds itself when there is no bar.
NoDataDigest(topic) ==
    [type |-> "TopicDigest", topic |-> topic, time_range |-> "No data",
     sentiment_trend |-> "stable", total_posts |-> 0]

\* DigestService.create_digest(topic, bars, lookback_bars) of a service
\* built on the GrokAdapter, as lifespan builds it.  passed is the number
\* of bars handed to create_topic_digest, None when it is not called.
DigestService_create_digest(topic, bars, lookback_bars, is_live, response, sentiment_trend) ==
    LET kept == first_bars(bars, lookback_bars)
        dicts == [k \in DOMAIN kept |-> Bar_to_dict(kept[k])]
        failed == {k \in DOMAIN kept : dicts[k].raised # None}
        bars_data == [k \in DOMAIN kept |-> kept[k]]
        r == Grok_create_topic_digest(bars_data, is_live, response,
                                      sentiment_trend)
    IN IF kept = <<>>
       THEN [raised |-> None, passed |-> None, called |-> FALSE,
             value |-> Some(NoDataDigest(topic))]
       ELSE IF failed # {}
       THEN [raised |-> Some("AttributeError"), passed |-> None,
             called |-> FALSE, value |-> None]
       ELSE IF r.raised # None
       THEN [raised |-> Some("RuntimeError"), passed |-> Some(Len(bars_data)),
             called |-> r.called, value |-> None]
       ELSE [raised |-> None, passed |-> Some(Len(bars_data)),
             called |-> r.called, value |-> r.value]

\* create_digest over the bars that generate_bars builds from the topic's
\* ticks, with or without summaries.
CreateDigest(topic, resolution, limit, generate_summaries, end_time, lookback_bars, is_live, response, sentiment_trend) ==
    /\ LET bars == generate_bars(ticks[topic], topic, resolution, limit,
                                 generate_summaries, end_time, {}).bars
           r == DigestService_create_digest(topic, bars, lookback_bars,
                                            is_live, response, sentiment_trend)
       IN ret' = [op |-> "create_digest", topic |-> topic,
                  args |-> [is_live |-> is_live, response |-> response.kind,
                            bars |-> Len(bars),
                            lookback_bars |-> lookback_bars],
                  called |-> r.called, passed |-> r.passed,
                  raised |-> r.raised, value |-> r.value]
    /\ UNCHANGED <<limiter_vars, store_vars, manager_vars, loop_vars>>

\* The categories lifespan configures on the RateLimiter it hands to the
\* GrokAdapter, both sliding_window; sliding_windows is the list of
\* "grok_fast", scaled like every category here.
configs == {"grok_fast", "grok_reasoning"}

\* category = "grok_careful" if model == self.careful_model else "grok_fast"
limit_category(model, careful_model) ==
    IF model = careful_model THEN "grok_careful" ELSE "grok_fast"

\* model=self.fast_model in summarize_bar, model=self.careful_model in
\* create_topic_digest.
model_of(kind, models) == IF kind = "summary" THEN models.fast ELSE models.careful

\* _structured_call of a live adapter, for a bar summary or for a digest,
\* from its entry to the call of the client or to the time.sleep of
\* wait_if_needed.  A category that is not in configs is let through
\* ("No rate limit configured"); a call that names "grok_fast" goes through
\* _wait_sliding_window.  No call names "grok_reasoning".
StructuredCall(c, kind) ==
    /\ rl_pc[c] = "idle"
    /\ LET category == limit_category(model_of(kind, grok_models),
                                      grok_models.careful)
           current_time == now
           window_times == WindowFilter(sliding_windows, current_time)
           at_limit == Len(window_times) >= RequestsPerWindow
           wait_time == IF at_limit
                        THEN WindowSeconds - (current_time - SeqMin(window_times))
                        ELSE 0
           called == [op |-> "_structured_call", topic |-> "", kind |-> kind,
                      category |-> category,
                      configured |-> category \in configs, reached |-> TRUE]
       IN IF category \notin configs
          THEN /\ grants' = RecordGrant
               /\ ret' = called
               /\ UNCHANGED <<sliding_windows, rl_pc, rl_wake>>
          ELSE IF at_limit /\ wait_time > 0
          THEN /\ sliding_windows' = window_times
               /\ rl_pc' = [rl_pc EXCEPT ![c] = "sleeping"]
               /\ rl_wake' = [rl_wake EXCEPT ![c] = current_time + wait_time]
               /\ ret' = [called EXCEPT !.reached = FALSE]
               /\ UNCHANGED grants
          ELSE /\ sliding_windows' = Append(window_times, current_time)
               /\ grants' = RecordGrant
               /\ ret' = called
               /\ UNCHANGED <<rl_pc, rl_wake>>
    /\ UNCHANGED <<now, bucket_vars, store_vars, manager_vars, loop_vars>>

\* _structured_call after the time.sleep of _wait_sliding_window: the grant
\* is recorded and the client is called.  Only a call that names
\* "grok_fast" sleeps, and only a bar summary names it.
StructuredCallWake(c) ==
    /\ rl_pc[c] = "sleeping"
    /\ now >= rl_wake[c]
    /\ LET current_time == now
           window_times == WindowFilter(sliding_windows, current_time)
       IN sliding_windows' = Append(window_times, current_time)
    /\ grants' = RecordGrant
    /\ rl_pc' = [rl_pc EXCEPT ![c] = "idle"]
    /\ ret' = [op |-> "_structured_call", topic |-> "", kind |-> "summary",
               category |-> "grok_fast", configured |-> TRUE,
               reached |-> TRUE]
    /\ UNCHANGED <<now, rl_wake, bucket_vars, store_vars, manager_vars,
                   loop_vars>>

(***************************************************************************)
(* Initial state and specifications                                        *)
(***************************************************************************)

Topics == {"tsla", "btc"}

\* The ids of the ticks the store operations are tried on.
MaxId == 3

\* Their timestamps: two instants give ticks that tie and ticks that are
\* older or newer than one another.
Timestamps == {0, 1}

\* A metrics dict without any of the four engagement counts.
NoEngagement == [impression_count |-> 0]

\* The ticks a poll of `topic` may return: any id at any timestamp for
\* "tsla"; for "btc" one tick, whose id "tsla" uses too.
StoreTicks(topic) ==
    IF topic = "tsla"
    THEN {Tick(i, t, NoEngagement) : i \in 1..MaxId, t \in Timestamps}
    ELSE {Tick(1, 0, NoEngagement)}

\* A poll's batch: up to two ticks, which may repeat an id or a whole tick.
Batches(topic) == SeqsUpTo(StoreTicks(topic), 2)

\* The retention cap: one below the number of ids, so that pruning happens.
StoreCap == MaxId - 1

\* The optional bounds get_ticks is called with.
OptTimes == {None} \cup {Some(t) : t \in Timestamps}

InitLimiterAt(start) ==
    /\ now = start
    /\ sliding_windows = <<>>
    /\ rl_pc = [c \in Callers |-> "idle"]
    /\ rl_wake = [c \in Callers |-> 0]
    /\ grants = [t \in Clock |-> 0]
    /\ fixed_windows = None
    /\ token_buckets = Capacity
    /\ last_refill = start

InitLimiter == InitLimiterAt(0)

\* TickStore.__init__
InitStore(cap) ==
    /\ max_ticks_per_topic = cap
    /\ ticks = [tp \in Topics |-> <<>>]
    /\ tick_ids = [tp \in Topics |-> {}]
    /\ ever_added = [tp \in Topics |-> {}]
    /\ ret = [op |-> "init", topic |-> "", args |-> <<>>, value |-> None]

\* The ticks the projections are tried on: the tick of id i was posted at
\* 8, 8, 15, 15, 22, 22, 29, ... (two of them on a 15 s boundary) and
\* carries all four engagement counts,
\* like_count alone, or none of them.
BarIds == 6

BarTick(i) ==
    Tick(i, 8 + 7 * ((i - 1) \div 2),
         CASE i % 3 = 1 -> [like_count |-> i, retweet_count |-> 1,
                            reply_count |-> 2, quote_count |-> 3]
           [] i % 3 = 2 -> [like_count |-> 10]
           [] OTHER -> NoEngagement)

\* A poll returns the ticks of the ids i..j.
BarPoll(i, j) == [k \in 1..(j - i + 1) |-> BarTick(i + k - 1)]

\* The resolutions asked for: three supported ones and one that is not.
ResolutionInputs == {"15s", "30s", "1m", "2m"}

\* The most bars asked for, and the instants asked for as end_time: the
\* 15 s boundaries up to MaxEndTime and the second before each.
MaxLimit == 2
MaxEndTime == 45
EndTimes == {t \in 0..MaxEndTime : t % 15 \in {0, 14}}

\* The windows generate_bar is called with directly: aligned and not, of a
\* resolution's width and not.
DirectWindows == {<<s, s + w>> : s \in {0, 15, 16}, w \in {15, 30}}

\* The topic ids of the registry operations, and the label each is
\* normally registered under.
TopicIds == {"t1", "t2"}

LabelOf(topic_id) == IF topic_id = "t1" THEN "tsla" ELSE "btc"

\* TickStore(): the default max_ticks_per_topic.
DefaultMaxTicks == 10000

\* XAI_FAST_MODEL and XAI_CAREFUL_MODEL unset: both default to one model.
DefaultModels == [fast |-> "grok-2-1212", careful |-> "grok-2-1212"]

\* TopicManager.__init__ and the attributes of TickPoller.__init__ and
\* BarScheduler.__init__ that do not tell whether they run.
InitTopicManager ==
    /\ topics = <<>>
    /\ bar_store = [label \in Topics |-> {}]
    /\ poller_queue = <<>>
    /\ sched_inflight = None
    /\ pending = [id \in TopicIds |-> None]
    /\ bars_cycle = None
    /\ half = 0
    /\ poll_windows = [id \in TopicIds |-> <<>>]
    /\ sched_queue = [r \in DOMAIN RESOLUTION_MAP |-> <<>>]

\* TickPoller.__init__ and BarScheduler.__init__: nothing runs.
InitNotRunning ==
    /\ poller_pc = "stopped"
    /\ poller_running = FALSE
    /\ poller_tasks = 0
    /\ sched_running = FALSE
    /\ sched_tasks = [r \in DOMAIN RESOLUTION_MAP |-> 0]
    /\ sched_pc = [r \in DOMAIN RESOLUTION_MAP |-> "stopped"]

\* After lifespan started the poller and the scheduler (AUTO_POLL): the
\* poller's task and a task per resolution exist.
InitRunning ==
    /\ poller_pc = "sleeping"
    /\ poller_running = TRUE
    /\ poller_tasks = 1
    /\ sched_running = TRUE
    /\ sched_tasks = [r \in DOMAIN RESOLUTION_MAP |-> 1]
    /\ sched_pc = [r \in DOMAIN RESOLUTION_MAP |-> "waiting"]

InitManager == InitTopicManager /\ InitRunning /\ grok_models = DefaultModels

Init == InitLimiter /\ InitStore(StoreCap) /\ InitManager

Next ==
    \/ \E tp \in Topics : \E batch \in Batches(tp) : AddTicks(tp, batch)
    \/ \E tp \in Topics : \E start \in OptTimes, end \in OptTimes :
          GetTicks(tp, start, end)
    \/ \E tp \in Topics : ClearTopic(tp)

Spec == Init /\ [][Next]_vars

InitBars == InitLimiter /\ InitStore(BarIds) /\ InitManager

\* The polls of "tsla" follow the stream: each overlaps or continues what is
\* stored and reaches past the newest stored tick.  A provider failure is
\* chosen only where the provider can be called.
NextBars ==
    \/ \E i \in 1..BarIds : \E j \in i..BarIds :
          /\ AfterWrite
          /\ \A k \in DOMAIN ticks["tsla"] : ticks["tsla"][k].id < j
          /\ ticks["tsla"] # <<>>
                => \E k \in DOMAIN ticks["tsla"] : i <= ticks["tsla"][k].id + 1
          /\ AddTicks("tsla", BarPoll(i, j))
    \/ \E w \in DirectWindows : \E r \in ResolutionInputs :
          \E generate_summary \in BOOLEAN :
             \E provider_raises \in {FALSE, generate_summary} :
                GenerateBar("tsla", w[1], w[2], r, generate_summary,
                            provider_raises)
    \/ \E r \in ResolutionInputs : \E limit \in 0..MaxLimit :
          \E generate_summaries \in BOOLEAN : \E end_time \in EndTimes :
             \E failing \in SUBSET (IF generate_summaries THEN 1..limit ELSE {}) :
                GenerateBars("tsla", r, limit, generate_summaries, end_time,
                             failing)

SpecBars == InitBars /\ [][NextBars]_vars

\* Polls bring the ticks of "tsla" in, in batches of rising ids that may
\* overlap what is stored; the bars of every resolution are then taken
\* over the store as it stands.
NextStored ==
    \E i \in 1..BarIds : \E j \in i..BarIds :
       /\ \A k \in DOMAIN ticks["tsla"] : ticks["tsla"][k].id < j
       /\ ticks["tsla"] # <<>>
             => \E k \in DOMAIN ticks["tsla"] : i <= ticks["tsla"][k].id + 1
       /\ AddTicks("tsla", BarPoll(i, j))

SpecStored == InitBars /\ [][NextStored]_vars

InitL == InitLimiter /\ InitStore(StoreCap) /\ InitManager

NextLimiter ==
    \/ \E c \in Callers : WaitSlidingWindow(c)
    \/ \E c \in Callers : WaitSlidingWindowWake(c)
    \/ ClockTick

SpecLimiter == InitL /\ [][NextLimiter]_vars

\* One caller alone on the sliding_window category.  time.sleep(wait_time)
\* returns when wait_time has passed and the caller's thread is the only
\* one, so the clock does not pass the instant a sleeper is due at.
NextSingleCaller ==
    \/ WaitSlidingWindow(1)
    \/ WaitSlidingWindowWake(1)
    \/ /\ ~(rl_pc[1] = "sleeping" /\ now >= rl_wake[1])
       /\ ClockTick

SpecSingleCaller == InitL /\ [][NextSingleCaller]_vars

NextFixedWindow ==
    \/ \E c \in Callers : WaitFixedWindow(c)
    \/ \E c \in Callers : WaitFixedWindowWake(c)
    \/ ClockTick

SpecFixedWindow == InitL /\ [][NextFixedWindow]_vars

NextTokenBucket ==
    \/ \E c \in Callers : WaitTokenBucket(c)
    \/ \E c \in Callers : WaitTokenBucketWake(c)
    \/ ClockTick

SpecTokenBucket == InitL /\ [][NextTokenBucket]_vars

\* What rng.choice draws from in the fallbacks.
Sentiments == {"positive", "negative", "neutral", "mixed"}
EngagementLevels == {"low", "medium", "high"}
SentimentTrends == {"improving", "declining", "stable", "volatile"}

\* The ticks of "tsla" are polled; a summary or a digest is then asked of
\* an adapter with or without a client, whose call succeeds, raises or
\* returns a payload of another type.
NextGrok ==
    \/ \E i \in 1..BarIds : \E j \in i..BarIds :
          /\ AfterWrite
          /\ \A k \in DOMAIN ticks["tsla"] : ticks["tsla"][k].id < i
          /\ AddTicks("tsla", BarPoll(i, j))
    \/ \E is_live \in BOOLEAN :
          \E response \in {LlmPayload("BarSummary", "positive"),
                           LlmIllTyped, LlmRaises} :
             \E sentiment \in Sentiments : \E engagement \in EngagementLevels :
                /\ AfterWrite
                /\ SummarizeBar("tsla", is_live, response, sentiment, engagement)
    \/ \E is_live \in BOOLEAN :
          \E response \in {LlmPayload("TopicDigest", "improving"),
                           LlmIllTyped, LlmRaises} :
             \E limit \in 0..MaxLimit : \E sentiment_trend \in SentimentTrends :
                /\ AfterWrite
                /\ CreateTopicDigest("tsla", "15s", limit, MaxEndTime, is_live,
                                     response, sentiment_trend)
    \/ \E w \in DirectWindows : \E engagement \in EngagementLevels :
          /\ AfterWrite
          /\ MockSummaryBar("tsla", w[1], w[2], "15s", "mixed", engagement)
    \/ \E is_live \in BOOLEAN :
          \E response \in {LlmPayload("TopicDigest", "improving"),
                           LlmIllTyped, LlmRaises} :
             \E limit \in 0..MaxLimit : \E lookback_bars \in 0..MaxLimit :
                \E generate_summaries \in BOOLEAN :
                   /\ AfterWrite
                   /\ CreateDigest("tsla", "15s", limit, generate_summaries,
                                   MaxEndTime, lookback_bars, is_live,
                                   response, "volatile")

SpecGrok == InitBars /\ [][NextGrok]_vars

\* The model names an adapter is set up with: the defaults, which name one
\* model twice, and two different models.
ModelConfigs == {DefaultModels, [fast |-> "grok-3-mini", careful |-> "grok-3"]}

InitCategory ==
    /\ InitLimiter
    /\ InitStore(StoreCap)
    /\ InitTopicManager
    /\ InitRunning
    /\ grok_models \in ModelConfigs

\* The most calls that reach the client within one second.
MaxCallsAtOnce == 3

\* Callers ask a live adapter for bar summaries and for digests, for the
\* length of a window.
NextCategory ==
    \/ \E c \in Callers : \E kind \in {"summary", "digest"} :
          /\ grants[now] < MaxCallsAtOnce
          /\ StructuredCall(c, kind)
    \/ \E c \in Callers : StructuredCallWake(c)
    \/ now < WindowSeconds /\ ClockTick

SpecCategory == InitCategory /\ [][NextCategory]_vars

\* The instant the TopicManager specifications start at: the ticks of the
\* searches are older, and it lies off every resolution boundary.
ManagerStart == 67

InitManagerAt(start) == InitLimiterAt(start) /\ InitStore(DefaultMaxTicks) /\ InitManager

\* The resolutions passed where one is optional: none, a supported one and
\* an unsupported one.
ResolutionArgs == {None, Some("15s"), Some("2m")}

\* The most polls counted per topic.
MaxPolls == 2

\* The search of this poll may still succeed: poll_count stays in bounds.
CanPoll(topic_id, outcome) ==
    \/ outcome.raises
    \/ \A i \in DOMAIN topics :
          topics[i].id = topic_id => topics[i].poll_count < MaxPolls

\* What a search returns or raises: no tick, two ticks, a timeout, a rate
\* limit that resets in BackoffSeconds.
BackoffSeconds == 2

Timeout == SearchError("XAPIError", "X API request timed out", None)

RateLimited ==
    SearchError("XRateLimitError", "X API rate limit exceeded",
                Some(now + BackoffSeconds))

TwoTicks == SearchTicks(<<BarTick(1), BarTick(3)>>)

InitRegistry == InitManagerAt(ManagerStart)

\* "t1" is the topic the operator works on; "t2" is there to be a second
\* topic, of another label or of the same, that is added, polled and removed.
NextRegistry ==
    \/ \E id \in TopicIds : \E label \in {"tsla", LabelOf(id)} :
          \E r \in {None, Some("2m")} : AddTopic(id, label, r)
    \/ \E id \in TopicIds : RemoveTopic(id)
    \/ PauseTopic("t1")
    \/ ResumeTopic("t1")
    \/ \E r \in {"15s", "2m"} : SetTopicResolution("t1", r)
    \/ \E outcome \in {SearchTicks(<<>>), TwoTicks, Timeout} :
          CanPoll("t1", outcome) /\ PollTopic("t1", outcome)
    \/ CanPoll("t2", TwoTicks) /\ PollTopic("t2", TwoTicks)
    \/ \E provider_raises \in BOOLEAN :
          SchedulerGenerate("t1", "15s", provider_raises)
    \/ SchedulerStore

SpecRegistry == InitRegistry /\ [][NextRegistry]_vars

\* A request that reads bars has returned; under SpecRead nothing is taken
\* from there, as a read leaves every store as it was.
AfterRead == ret.op \in {"get_bars", "get_bars_async"}

InitRead == InitManagerAt(ManagerStart)

\* "t1" is registered, polled, given bars and removed; "t2" never is.
NextRead ==
    /\ ~AfterRead
    /\ \/ AddTopic("t1", "tsla", None)
       \/ RemoveTopic("t1")
       \/ CanPoll("t1", TwoTicks) /\ PollTopic("t1", TwoTicks)
       \/ \E r \in {"15s", "1m"} : \E provider_raises \in BOOLEAN :
             SchedulerGenerate("t1", r, provider_raises)
       \/ SchedulerStore
       \/ \E id \in TopicIds : \E r \in ResolutionArgs :
             \E limit \in 0..MaxLimit : \E generate_summaries \in BOOLEAN :
                GetBars(id, r, limit, generate_summaries)
       \/ \E id \in TopicIds : \E r \in ResolutionArgs :
             \E limit \in 0..MaxLimit : \E generate_summaries \in BOOLEAN :
                GetBarsAsync(id, r, limit, generate_summaries)

SpecRead == InitRead /\ [][NextRead]_vars

\* The seconds the clock runs for under SpecPoller.
PollerSeconds == 2

InitPoller == InitManagerAt(ManagerStart)

NextPoller ==
    \/ \E id \in TopicIds : AddTopic(id, LabelOf(id), None)
    \/ \E id \in TopicIds : RemoveTopic(id)
    \/ \E id \in TopicIds : PauseTopic(id)
    \/ \E id \in TopicIds : ResumeTopic(id)
    \/ \E outcome \in {TwoTicks, Timeout, RateLimited} :
          /\ active_topic_ids(topics) # <<>>
                => CanPoll(Head(active_topic_ids(topics)), outcome)
          /\ PollerCycle(outcome)
    \/ \E outcome \in {TwoTicks, Timeout, RateLimited} :
          /\ poller_queue # <<>>
          /\ CanPoll(Head(poller_queue), outcome)
          /\ PollerPollNext(outcome)
    \/ now < ManagerStart + PollerSeconds /\ Advance
    \/ PollerStop
    \/ PollerStart

SpecPoller == InitPoller /\ [][NextPoller]_vars

\* The instant SpecScheduler runs at: the tasks of "15s" and "30s" slept to
\* the boundary 30 and WakeMargin past it.
SchedulerStart == 32

\* asyncio.sleep(wait_seconds + 2)
WakeMargin == 2

\* The bars asked of a backfill; it stands for initial_backfill_limit.
BackfillLimit == 2

\* BarScheduler._get_next_boundary, in seconds
_get_next_boundary(resolution, ts) ==
    ((ts \div RESOLUTION_MAP[resolution]) + 1) * RESOLUTION_MAP[resolution]

InitScheduler == InitManagerAt(SchedulerStart)

\* "t1" is registered and polled once; the tasks of two resolutions fire,
\* and bars are backfilled at startup, by regenerate_topic and for the API.
NextScheduler ==
    \/ AddTopic("t1", "tsla", None)
    \/ CanPoll("t1", TwoTicks) /\ PollTopic("t1", TwoTicks)
    \/ \E r \in {"15s", "30s"} : \E provider_raises \in BOOLEAN :
          SchedulerGenerate("t1", r, provider_raises)
    \/ \E r \in {"15s", "30s"} : SchedulerSkip("t1", r)
    \/ SchedulerStore
    \/ \E generate_summaries \in BOOLEAN :
          \E by \in {"startup", "regenerate"} :
             GenerateBarsForTopic("t1", "15s", BackfillLimit,
                                  generate_summaries, {}, by)
    \/ \E generate_summaries \in BOOLEAN :
          ApiBackfill("t1", "15s", BackfillLimit, generate_summaries, {})
    \/ StoreNextBar

SpecScheduler == InitScheduler /\ [][NextScheduler]_vars

\* The instant SpecWindows starts at and the seconds it runs for.
WindowsStart == 660
WindowsSpan == 48

\* The ages, in half seconds, of the window ends asked of search_for_bar:
\* 5 s, 10 s, 11.5 s, 12 s and 20 s.
SearchAges == {10, 20, 23, 24, 40}

\* The half seconds a poll takes.
PollHalves == {0, 2}

InitWindows == InitManagerAt(WindowsStart)

\* The poller runs from WindowsStart on with its own clock; topics are
\* registered and stay active; bar windows are searched for directly.
NextWindows ==
    \/ \E id \in TopicIds : AddTopic(id, LabelOf(id), None)
    \/ \E took \in PollHalves : \E lag \in {0, took} :
          /\ now < WindowsStart + WindowsSpan
          /\ PollerCycleTimed(lag, took)
    \/ \E took \in PollHalves : \E lag \in {0, took} :
          /\ now < WindowsStart + WindowsSpan
          /\ PollerPollNextTimed(lag, took)
    \/ \E age \in SearchAges : SearchForBar(age)

SpecWindows == InitWindows /\ [][NextWindows]_vars

\* The resolutions whose tasks reach their boundary in SpecLoops and
\* SpecTasks.
FiringResolutions == {"15s", "30s"}

InitLoops == InitManagerAt(SchedulerStart)

\* The poller and the scheduler run.  Two topics are registered; the
\* poller's cycles meet ticks and timeouts, the scheduler's tasks generate
\* bars and meet errors; stop() ends the poller or the scheduler.
NextLoops ==
    \/ \E id \in TopicIds : AddTopic(id, LabelOf(id), None)
    \/ ResumeTopic("t1")
    \/ \E outcome \in {TwoTicks, Timeout} :
          /\ active_topic_ids(topics) # <<>>
                => CanPoll(Head(active_topic_ids(topics)), outcome)
          /\ PollerCycle(outcome)
    \/ \E outcome \in {TwoTicks, Timeout} :
          /\ poller_queue # <<>>
          /\ CanPoll(Head(poller_queue), outcome)
          /\ PollerPollNext(outcome)
    \/ \E r \in FiringResolutions : SchedulerFire(r)
    \/ \E r \in FiringResolutions : \E raises \in BOOLEAN :
          SchedulerTopic(r, raises)
    \/ TickPoller_stop
    \/ BarScheduler_stop

SpecLoops == InitLoops /\ [][NextLoops]_vars

\* Before lifespan starts the poller and the scheduler.
InitTasks ==
    /\ InitLimiterAt(SchedulerStart)
    /\ InitStore(DefaultMaxTicks)
    /\ InitTopicManager
    /\ InitNotRunning
    /\ grok_models = DefaultModels

\* start() and stop() of the poller and of the scheduler are called in any
\* order, one after the other, while "t1" is registered and polled and
\* the tasks that exist run.  A start() of the scheduler returns after its
\* backfill, so no start() or stop() comes before.
NextTasks ==
    \/ AddTopic("t1", "tsla", None)
    \/ bars_cycle = None /\ TickPoller_start
    \/ bars_cycle = None /\ TickPoller_stop
    \/ bars_cycle = None /\ BarScheduler_start
    \/ bars_cycle = None /\ BarScheduler_stop
    \/ /\ active_topic_ids(topics) # <<>>
             => CanPoll(Head(active_topic_ids(topics)), TwoTicks)
       /\ PollerCycle(TwoTicks)
    \/ \E r \in FiringResolutions : SchedulerFire(r)
    \/ \E r \in FiringResolutions : SchedulerTopic(r, FALSE)
    \/ /\ ret.op = "scheduler_start"
       /\ ret.created
       /\ GenerateBarsForTopic("t1", "15s", BackfillLimit, FALSE, {}, "startup")
    \/ StoreNextBar

SpecTasks == InitTasks /\ [][NextTasks]_vars

(***************************************************************************)
(* TickStore: claims C2 to C5, under Spec                                  *)
(***************************************************************************)

\* What a caller can observe of one topic's ticks: get_ticks for every
\* pair of bounds, get_tick_count and get_time_range.
Observable(tks) ==
    [get_ticks |-> [w \in OptTimes \X OptTimes |-> get_ticks(tks, w[1], w[2])],
     get_tick_count |-> get_tick_count(tks),
     get_time_range |-> get_time_range(tks)]

\* The stored ticks of a list whose timestamp lies in [start, end), an
\* absent bound not restricting.
InWindow(tks, start, end) ==
    {t \in SeqToSet(tks) :
        /\ (start = None \/ start[1] <= t.timestamp)
        /\ (end = None \/ t.timestamp < end[1])}

\* The place of a stored tick in its list.
PositionIn(tks, t) == CHOOSE k \in DOMAIN tks : tks[k] = t

\* C2: no two ticks stored under one topic share an id, and as long as no
\* more distinct ids than max_ticks_per_topic were added to a topic, its
\* get_tick_count is the number of distinct ids added.
C2_DedupExactOnId ==
    \A tp \in Topics :
        /\ \A i, j \in DOMAIN ticks[tp] :
              i # j => ticks[tp][i].id # ticks[tp][j].id
        /\ Cardinality(ever_added[tp]) <= max_ticks_per_topic
              => get_tick_count(ticks[tp]) = Cardinality(ever_added[tp])

\* A batch of two ticks of which one was a duplicate (of the other, or of a
\* stored tick) has just been added and the topic holds two ticks.
C2_Witness ==
    /\ ret.op = "add_ticks"
    /\ Len(ret.args) = 2
    /\ ret.value = 1
    /\ get_tick_count(ticks[ret.topic]) = 2
    /\ Cardinality(ever_added[ret.topic]) = 2

\* C3: add_ticks(topic, batch) called twice in succession returns 0 the
\* second time and leaves what get_ticks, get_tick_count and
\* get_time_range show unchanged.
C3_RepeatedAddIsNoOp ==
    [][(/\ ret.op = "add_ticks"
        /\ ret'.op = "add_ticks"
        /\ ret'.topic = ret.topic
        /\ ret'.args = ret.args)
       => /\ ret'.value = 0
          /\ Observable(ticks'[ret.topic]) = Observable(ticks[ret.topic])]_vars

\* C4: no topic ever holds more than max_ticks_per_topic ticks, and when an
\* add_ticks pushed the list above the cap, exactly max_ticks_per_topic
\* ticks remain and no dropped tick is newer than a kept one.
C4_CountWithinCap ==
    /\ \A tp \in Topics : get_tick_count(ticks[tp]) <= max_ticks_per_topic
    /\ (ret.op = "add_ticks" /\ ret.post_insert > max_ticks_per_topic)
          => LET kept == ticks[ret.topic]
             IN /\ get_tick_count(kept) = max_ticks_per_topic
                /\ Cardinality(ret.dropped)
                      = ret.post_insert - max_ticks_per_topic
                /\ \A d \in ret.dropped : \A k \in SeqToSet(kept) :
                      d.timestamp <= k.timestamp

\* An add_ticks has just pruned a tick that is older than a kept one.
C4_Witness ==
    /\ ret.op = "add_ticks"
    /\ ret.post_insert > max_ticks_per_topic
    /\ \E d \in ret.dropped : \E k \in SeqToSet(ticks[ret.topic]) :
          d.timestamp < k.timestamp

\* C5 as stated: get_ticks returns exactly the stored ticks of the window,
\* ascending by timestamp with equal timestamps ordered by id.
C5_GetTicksTiesById ==
    ret.op = "get_ticks"
       => LET r == ret.value
              window == InWindow(ticks[ret.topic], ret.args[1], ret.args[2])
          IN /\ SeqToSet(r) = window
             /\ Len(r) = Cardinality(window)
             /\ \A i \in 1..Len(r) - 1 :
                   \/ r[i].timestamp < r[i + 1].timestamp
                   \/ /\ r[i].timestamp = r[i + 1].timestamp
                      /\ r[i].id < r[i + 1].id

\* C5 as amended: get_ticks returns exactly the stored ticks of the window,
\* ascending by timestamp, ticks of equal timestamp in the order they have
\* in the stored list.
C5_GetTicksTiesByListOrder ==
    ret.op = "get_ticks"
       => LET tks == ticks[ret.topic]
              r == ret.value
              window == InWindow(tks, ret.args[1], ret.args[2])
          IN /\ SeqToSet(r) = window
             /\ Len(r) = Cardinality(window)
             /\ \A i, j \in DOMAIN r :
                   i < j => /\ r[i].timestamp <= r[j].timestamp
                            /\ r[i].timestamp = r[j].timestamp
                                  => PositionIn(tks, r[i]) < PositionIn(tks, r[j])

\* get_ticks has just returned two ticks of one timestamp, the higher id
\* first.
C5_Witness ==
    /\ ret.op = "get_ticks"
    /\ \E i \in 1..Len(ret.value) - 1 :
          /\ ret.value[i].timestamp = ret.value[i + 1].timestamp
          /\ ret.value[i].id > ret.value[i + 1].id

(***************************************************************************)
(* RateLimiter: claim C1, under SpecLimiter                                 *)
(***************************************************************************)

\* The number of acquires granted at an instant of [t, t + W).
GrantsIn(t) ==
    LET F[u \in t - 1 .. MaxClock] ==
            IF u < t THEN 0
            ELSE F[u - 1] + (IF u < t + WindowSeconds THEN grants[u] ELSE 0)
    IN F[MaxClock]

\* C1: under sliding_window at N per W seconds, for every instant t at most
\* N acquires return with their grant time in [t, t + W), whatever the
\* interleaving of the concurrent callers.
C1_SlidingWindowAtMostN ==
    \A t \in Clock : GrantsIn(t) <= RequestsPerWindow

(***************************************************************************)
(* BarGenerator: claims C6 to C10, under SpecBars                          *)
(***************************************************************************)

\* A projection has just returned: generate_bar its one bar, generate_bars
\* its list of bars.
Projected == ret.op \in {"generate_bar", "generate_bars"}

\* The stored ticks of the projected topic that lie in a bar's window.
BarWindow(bar) == InWindow(ticks[ret.topic], Some(bar.start), Some(bar.end))

\* The sum of one engagement count over a set of ticks, a tick without the
\* count adding 0.
RECURSIVE EngagementOver(_, _)
EngagementOver(S, name) ==
    IF S = {} THEN 0
    ELSE LET t == CHOOSE x \in S : TRUE
         IN (IF name \in DOMAIN t.metrics THEN t.metrics[name] ELSE 0)
               + EngagementOver(S \ {t}, name)

\* The four sums of a bar are those of the ticks of its window.
SumsOfWindow(bar) ==
    /\ bar.total_likes = EngagementOver(BarWindow(bar), "like_count")
    /\ bar.total_retweets = EngagementOver(BarWindow(bar), "retweet_count")
    /\ bar.total_replies = EngagementOver(BarWindow(bar), "reply_count")
    /\ bar.total_quotes = EngagementOver(BarWindow(bar), "quote_count")

\* C6: every bar of generate_bar has as post_count the number of ticks
\* get_ticks returns for [start, end), as its four totals the sums of the
\* metric over those ticks (a missing metric counting 0), and as
\* sample_post_ids the ids of the first min(5, post_count) of them.
C6_BarMetricsExact ==
    Projected
       => \A i \in DOMAIN ret.value :
             LET bar == ret.value[i]
                 window == get_ticks(ticks[ret.topic], Some(bar.start),
                                     Some(bar.end))
             IN /\ bar.post_count = Len(window)
                /\ SumsOfWindow(bar)
                /\ Len(bar.sample_post_ids) = Min(5, bar.post_count)
                /\ \A k \in DOMAIN bar.sample_post_ids :
                      bar.sample_post_ids[k] = window[k].id

\* generate_bar has just returned a bar of more than five ticks, one of
\* them without like_count, whose likes are not 0.
C6_Witness ==
    /\ ret.op = "generate_bar"
    /\ ret.value[1].post_count > 5
    /\ Len(ret.value[1].sample_post_ids) = 5
    /\ ret.value[1].total_likes > 0
    /\ \E t \in BarWindow(ret.value[1]) : "like_count" \notin DOMAIN t.metrics

\* A bar spans one resolution and starts on a multiple of it.
Aligned(bar) ==
    /\ bar.end - bar.start = RESOLUTION_MAP[bar.resolution]
    /\ bar.start % RESOLUTION_MAP[bar.resolution] = 0

\* C7 as stated: every bar of generate_bar and of generate_bars, for any
\* start, end and end_time and a supported resolution, spans one resolution
\* and starts on a multiple of it.
C7_EveryBarAligned ==
    (Projected /\ ret.args.resolution \in DOMAIN RESOLUTION_MAP)
       => \A i \in DOMAIN ret.value : Aligned(ret.value[i])

\* C7 as amended: every bar of generate_bars spans one resolution and
\* starts on a multiple of it, and the bar of generate_bar has the start
\* and the end it was called with.
C7_GenerateBarsAligned ==
    /\ ret.op = "generate_bars"
          => \A i \in DOMAIN ret.value : Aligned(ret.value[i])
    /\ ret.op = "generate_bar"
          => /\ ret.value[1].start = ret.args.start
             /\ ret.value[1].end = ret.args.end

\* generate_bars has just returned bars for an end_time that is not on a
\* boundary of the resolution.
C7_Witness ==
    /\ ret.op = "generate_bars"
    /\ ret.value # <<>>
    /\ ret.args.end_time % RESOLUTION_MAP[ret.args.resolution] # 0

\* The stored ticks of the projected topic posted in [from, to).
PostedIn(from, to) ==
    {t \in SeqToSet(ticks[ret.topic]) : from <= t.timestamp /\ t.timestamp < to}

\* The sum of the post_counts of a list of bars.
PostCounts(bars) ==
    LET F[n \in 0..Len(bars)] ==
            IF n = 0 THEN 0 ELSE F[n - 1] + bars[n].post_count
    IN F[Len(bars)]

\* C8: in the bars of generate_bars a tick posted at a bar boundary is
\* counted in the bar that starts there and not in the one that ends there,
\* and the post_counts add up to the number of stored ticks posted in the
\* range the bars cover.
C8_BoundaryTickCountedOnce ==
    (ret.op = "generate_bars" /\ ret.value # <<>>)
       => LET bars == ret.value
          IN /\ \A i \in DOMAIN bars :
                   bars[i].post_count
                      = Cardinality(PostedIn(bars[i].start, bars[i].end))
             /\ PostCounts(bars)
                   = Cardinality(PostedIn(bars[Len(bars)].start, bars[1].end))

\* generate_bars has just returned two bars that both hold ticks, with a
\* stored tick posted at the boundary between them.
C8_Witness ==
    /\ ret.op = "generate_bars"
    /\ Len(ret.value) = 2
    /\ ret.value[1].post_count > 0
    /\ ret.value[2].post_count > 0
    /\ \E t \in SeqToSet(ticks[ret.topic]) :
          t.timestamp = ret.value[1].start /\ t.timestamp = ret.value[2].end

\* C9: generate_bars returns limit bars, the first ending at end_time
\* floored to a multiple of the resolution, each next one ending where the
\* one before it starts, with strictly decreasing starts.
C9_LimitContiguousBars ==
    (ret.op = "generate_bars" /\ ~ret.raised)
       => LET bars == ret.value
              resolution_seconds == RESOLUTION_MAP[ret.args.resolution]
          IN /\ Len(bars) = ret.args.limit
             /\ bars # <<>>
                   => /\ bars[1].end % resolution_seconds = 0
                      /\ bars[1].end <= ret.args.end_time
                      /\ ret.args.end_time < bars[1].end + resolution_seconds
             /\ \A i \in 1..Len(bars) - 1 :
                   /\ bars[i + 1].end = bars[i].start
                   /\ bars[i + 1].start < bars[i].start

\* generate_bars has just returned two bars for a topic with stored ticks
\* and an end_time off the boundary, the older bar empty.
C9_Witness ==
    /\ ret.op = "generate_bars"
    /\ ~ret.raised
    /\ ret.args.limit = 2
    /\ Len(ret.value) = 2
    /\ ret.args.end_time # ret.value[1].end
    /\ ticks[ret.topic] # <<>>
    /\ ret.value[2].post_count = 0

\* C10: the provider is called exactly for the bars asked with a summary
\* whose window holds a tick; a call that raises leaves the projection
\* returning, the bar with the metrics of its window and no summary.
C10_ProviderFailureContained ==
    Projected
       => /\ ~ret.raised \/ ret.args.resolution \notin DOMAIN RESOLUTION_MAP
          /\ \A i \in DOMAIN ret.value :
                LET bar == ret.value[i]
                IN /\ ret.invoked[i]
                         <=> (ret.args.generate_summary /\ BarWindow(bar) # {})
                   /\ ret.provider_raised[i]
                         => /\ bar.summary = None
                            /\ bar.post_count = Cardinality(BarWindow(bar))
                            /\ SumsOfWindow(bar)
                   /\ bar.summary # None
                         <=> (ret.invoked[i] /\ ~ret.provider_raised[i])

\* generate_bar has just returned a bar that holds ticks and no summary,
\* the provider having raised.
C10_Witness ==
    /\ ret.op = "generate_bar"
    /\ ~ret.raised
    /\ ret.provider_raised[1]
    /\ ret.value[1].post_count > 0
    /\ ret.value[1].total_likes > 0
    /\ ret.value[1].summary = None

(***************************************************************************)
(* Claims C11 to C20: TopicManager, TickPoller and BarScheduler            *)
(***************************************************************************)

\* The topic record a returned read resolved, and the resolution it read at.
ReadTopic == topics[topic_index(topics, ret.topic)]

ReadResolution == resolution_or(ret.args.resolution, ReadTopic.resolution)

RequestedWindowEnd(k, resolution, current_time) ==
    floor_to_resolution(current_time, RESOLUTION_MAP[resolution])
       - (k - 1) * RESOLUTION_MAP[resolution]

Unregistered(tps, label) == \A i \in DOMAIN tps : tps[i].label # label

\* C13: a label that no registered topic holds (none was added since the
\* removal of the last one) has no tick in the TickStore and no bar at any
\* resolution in the BarStore, whatever was in flight when it was removed.
C13_RemovedLabelStaysEmpty ==
    \A label \in Topics :
       Unregistered(topics, label)
          => /\ get_tick_count(ticks[label]) = 0
             /\ \A r \in DOMAIN RESOLUTION_MAP :
                   BarStore_get_bars(bar_store[label], r, 1) = <<>>

\* The status of a registered id.
StatusOf(tps, topic_id) == tps[topic_index(tps, topic_id)].status

\* The transitions of the lifecycle.
Lifecycle ==
    {<<ACTIVE, PAUSED>>, <<PAUSED, ACTIVE>>, <<ACTIVE, ERROR>>, <<ERROR, ACTIVE>>}

\* C14: in every step the status of a topic that stays registered is kept
\* or changes along active -> paused, paused -> active, active -> error or
\* error -> active, and a topic that enters the registry is active.
C14_StatusTransitions ==
    [][\A id \in TopicIds :
          /\ (has_topic(topics, id) /\ has_topic(topics', id))
                => \/ StatusOf(topics', id) = StatusOf(topics, id)
                   \/ <<StatusOf(topics, id), StatusOf(topics', id)>> \in Lifecycle
          /\ (~has_topic(topics, id) /\ has_topic(topics', id))
                => StatusOf(topics', id) = ACTIVE]_vars

\* C15: every registered topic's tick_count is the number of ticks the
\* TickStore holds under its label.
C15_TickCountMatchesStore ==
    \A i \in DOMAIN topics :
       topics[i].tick_count = get_tick_count(ticks[topics[i].label])

\* No two records of the dict share an id.
UniqueIds(tps) ==
    \A i, j \in DOMAIN tps : tps[i].id = tps[j].id => i = j

IdsOf(ids) == {ids[k] : k \in DOMAIN ids}

\* C17: a call of poll_topic searches only for a topic that is registered
\* and active when it is called; called for a topic that is missing, paused
\* or in error it returns 0 without a search and leaves every topic record
\* and the TickStore as they were, also on a later turn of a poller cycle
\* that enumerated the topic while it was active.
C17_OnlyActiveTopicsSearched ==
    [][ret'.op = "poll_topic"
          => LET pollable == /\ has_topic(topics, ret'.topic)
                             /\ StatusOf(topics, ret'.topic) = ACTIVE
             IN /\ ret'.searched <=> pollable
                /\ ~pollable
                      => /\ ret'.value = 0
                         /\ topics' = topics
                         /\ ticks' = ticks
                         /\ tick_ids' = tick_ids]_vars

\* On a later turn of its cycle the poller has called poll_topic for a
\* topic that was paused after the enumeration: no search was made.
C17_Witness ==
    /\ ret.op = "poll_topic"
    /\ ret.by = "poller"
    /\ ret.enumerated = None
    /\ ~ret.searched
    /\ has_topic(topics, ret.topic)
    /\ StatusOf(topics, ret.topic) = PAUSED

CycleOpens ==
    /\ ret'.op \in {"poll_topic", "poll_all_topics"}
    /\ ret'.enumerated # None

\* The last poll of the topic by the poller failed with an error of this
\* type, and no operator has acted on the topic since.
PendingError(topic_id, type) ==
    /\ pending[topic_id] # None
    /\ pending[topic_id][1].type = type

\* C19: an iteration of the poller loop that starts while the last poll of a
\* topic failed with a transient error, no operator having acted on the
\* topic since, takes that topic among the topics it polls.
C19_TransientErrorRetried ==
    [][CycleOpens
          => \A id \in TopicIds :
                PendingError(id, "XAPIError") => id \in IdsOf(ret'.enumerated[1])]_vars

\* C20: while the last poll of a topic failed with a rate limit that resets
\* at R, the poller searches for that topic at no instant before R, and an
\* iteration of its loop that starts at R or later takes the topic among
\* the topics it polls.
C20_RateLimitBackoffThenRetry ==
    [][\A id \in TopicIds :
          PendingError(id, "XRateLimitError")
             => LET R == pending[id][1].reset_time[1]
                IN /\ ( /\ ret'.op = "poll_topic"
                        /\ ret'.by = "poller"
                        /\ ret'.topic = id
                        /\ ret'.searched ) => now >= R
                   /\ (CycleOpens /\ now >= R)
                         => id \in IdsOf(ret'.enumerated[1])]_vars

(***************************************************************************)
(* Claims C21 to C30                                                       *)
(***************************************************************************)

\* A step of the poller task: a call of poll_topic or an empty enumeration.
PollerStep ==
    /\ ret'.op \in {"poll_topic", "poll_all_topics"}
    /\ ret'.by = "poller"

\* Every batch a search returned is stored and counted: the ids handed to
\* add_ticks are in the TickStore, and each record that was polled holds
\* the count of its label and the time of its last poll.
BatchesAccounted ==
    /\ \A label \in Topics : ever_added[label] \subseteq tick_ids[label]
    /\ \A label \in Topics :
          tick_ids[label] = {ticks[label][k].id : k \in DOMAIN ticks[label]}
    /\ \A i \in DOMAIN topics :
          /\ topics[i].tick_count = get_tick_count(ticks[topics[i].label])
          /\ topics[i].poll_count > 0 => topics[i].last_poll # None

\* C21: stop() cancels the loop at a point where every batch a search has
\* returned is stored and counted, and changes no record and no tick; the
\* loop is then over, and as long as the poller is stopped it makes no
\* further poll.
C21_StopCutsNoPoll ==
    [][/\ ret'.op = "poller_stop"
             => /\ BatchesAccounted
                /\ topics' = topics
                /\ ticks' = ticks
                /\ tick_ids' = tick_ids
                /\ poller_pc' = "stopped"
                /\ poller_queue' = <<>>
       /\ poller_pc = "stopped" => ~PollerStep]_vars

\* stop() has just cancelled the loop between two topics of a cycle: the
\* first has been polled and its two ticks are stored, the second was still
\* to be polled.
C21_Witness ==
    /\ ret.op = "poller_stop"
    /\ ret.cancelled_at = "polling"
    /\ ret.left # <<>>
    /\ poller_pc = "stopped"
    /\ \E i \in DOMAIN topics :
          /\ topics[i].poll_count > 0
          /\ topics[i].tick_count = 2

\* The ids of the batch the searches return, and how many of its ticks fall
\* into a window.
BatchIds == {TwoTicks.ticks[k].id : k \in DOMAIN TwoTicks.ticks}

BatchIn(start, end) ==
    Cardinality({k \in DOMAIN TwoTicks.ticks :
                    /\ start <= TwoTicks.ticks[k].timestamp
                    /\ TwoTicks.ticks[k].timestamp < end})

\* A bar counts none of the batch or every tick of it in its window.
CountsWholeBatch(bar) ==
    bar.post_count \in {0, BatchIn(bar.start, bar.end)}

BarsAt(bars, resolution, start) ==
    {b \in bars : b.resolution = resolution /\ b.start = start}

\* C23: a firing passes over the window of an active topic that has ticks
\* only if the BarStore holds a bar with a summary at exactly that key; a
\* bar stored there without a summary is no reason to skip.
C23_SkipOnlyOverSummary ==
    (ret.op = "skip_current_bar" /\ ret.has_ticks)
        => \E b \in BarsAt(bar_store[ret.label], ret.resolution, ret.start) :
              b.summary # None

\* The boundaries a task of the resolution can be firing for at this
\* instant: `next` for a wait that began in the window before it, the task
\* having slept to next + WakeMargin and not yet to the boundary after.
FiringBoundaries(resolution) ==
    LET resolution_seconds == RESOLUTION_MAP[resolution]
    IN {next \in {_get_next_boundary(resolution, began) :
                     began \in (now - 2 * resolution_seconds)..now} :
           /\ next + WakeMargin <= now
           /\ now < next + resolution_seconds + WakeMargin}

\* C24: the bar a firing at boundary `next` builds is the bar of the window
\* [next - res, next), whatever the timestamps of the stored ticks.
C24_WindowFromClock ==
    ret.op = "generate_current_bar"
        => \A next \in FiringBoundaries(ret.value.resolution) :
              /\ ret.value.end = next
              /\ ret.value.start = next - RESOLUTION_MAP[ret.value.resolution]

\* C25: while the bars of one cycle are being written, a reader never finds
\* a bar of the cycle stored while an earlier-starting bar of the same cycle
\* is still to be written and nothing is stored at its key.
C25_AscendingVisibility ==
    bars_cycle # None
        => LET c == bars_cycle[1]
           IN \A i \in 1..c.done : \A j \in (c.done + 1)..Len(c.bars) :
                 c.bars[j].start < c.bars[i].start
                    => BarsAt(bar_store[c.topic], c.bars[j].resolution,
                              c.bars[j].start) # {}

\* The keys (resolution, start) at which a label's BarStore holds a bar
\* with a summary.
SummaryKeys(bars) ==
    {<<b.resolution, b.start>> : b \in {c \in bars : c.summary # None}}

KeysOf(bars) == {<<b.resolution, b.start>> : b \in bars}

GrantsInWindow(window_start) ==
    LET F[t \in (window_start - 1)..(window_start + WindowSeconds - 1)] ==
            IF t < window_start THEN 0
            ELSE F[t - 1] + (IF t \in Clock THEN grants[t] ELSE 0)
    IN F[window_start + WindowSeconds - 1]

\* C28: in every window [k*W, (k+1)*W) at most RequestsPerWindow acquires
\* of a fixed_window category return.
C28_FixedWindowBudget ==
    \A t \in Clock :
        GrantsInWindow(window_start_of(t)) <= RequestsPerWindow

\* C29: whatever acquires one or several callers make, the token balance of
\* a token_bucket category stays within [0, N]: no acquire returns without
\* a whole token to take.
C29_BalanceInRange ==
    /\ 0 <= token_buckets
    /\ token_buckets <= Capacity

\* C30: when the adapter has no client, the LLM call raises or its payload
\* is not of the schema, summarize_bar and create_topic_digest raise an
\* error and return nothing.
C30_FailureSurfacesError ==
    (/\ ret.op \in {"summarize_bar", "create_topic_digest"}
     /\ ret.called
     /\ ~ret.args.is_live \/ ret.args.response \in {"raises", "ill_typed"})
        => /\ ret.raised # None
           /\ ret.value = None

(***************************************************************************)
(* Claims C31 to C40                                                       *)
(***************************************************************************)

\* The category whose budget the configuration gives to a kind of call.
BudgetOf(kind) == IF kind = "summary" THEN "grok_fast" ELSE "grok_reasoning"

\* C31: every bar-summary call that reaches the LLM consumes a unit of the
\* configured "fast" category, and every digest call a unit of the
\* configured "reasoning" category, whatever the two model names are: a
\* step in which a call reaches the client charges the category of its
\* kind, and that category is configured.
C31_CallChargesItsCategory ==
    [][grants' # grants
          => /\ ret'.op = "_structured_call"
             /\ ret'.configured
             /\ ret'.category = BudgetOf(ret'.kind)]_vars

\* The ids of the ticks of ret's topic that lie in the window of `bar`.
WindowIds(bar) ==
    {ticks[ret.topic][k].id : k \in {j \in DOMAIN ticks[ret.topic] :
        /\ bar.start <= ticks[ret.topic][j].timestamp
        /\ ticks[ret.topic][j].timestamp < bar.end}}

\* C32: for every bar that carries a summary, summary.highlight_posts can
\* be read, and when it is present it has at most 2 entries, each the id
\* of a tick that lies in the bar's window.
C32_HighlightsFromWindow ==
    (ret.op = "mock_summary_bar" /\ ret.value.summary # None)
       => /\ ret.highlight_posts[1].raised = None
          /\ LET highlight_posts == ret.highlight_posts[1].value[1]
             IN highlight_posts # None
                   => /\ Len(highlight_posts[1]) <= 2
                      /\ \A k \in DOMAIN highlight_posts[1] :
                            highlight_posts[1][k] \in WindowIds(ret.value)

\* C33: create_digest of an empty bar list returns the canned empty digest
\* of the topic without calling the provider; of a non-empty list it hands
\* at most lookback_bars bars to the provider; and when the provider's LLM
\* call fails, the caller gets an error and no digest.
C33_DigestOrError ==
    ret.op = "create_digest"
       => /\ ret.args.bars = 0
                => /\ ret.value = Some(NoDataDigest(ret.topic))
                   /\ ret.passed = None
                   /\ ~ret.called
          /\ (ret.args.bars > 0 /\ ret.passed # None)
                => ret.passed[1] <= ret.args.lookback_bars
          /\ (/\ ret.called
              /\ ~ret.args.is_live \/ ret.args.response \in {"raises", "ill_typed"})
                => /\ ret.raised # None
                   /\ ret.value = None

\* C34: an error raised while a topic is polled or while a topic's bar is
\* generated ends neither the poller's task nor a scheduler task: the task
\* goes on with the topics left of the cycle and then waits for its next
\* cycle, and only stop() takes a task away.
C34_ErrorsKeepLoopsAlive ==
    [][/\ poller_tasks' < poller_tasks => ret'.op = "poller_stop"
       /\ \A r \in DOMAIN RESOLUTION_MAP :
             sched_tasks'[r] < sched_tasks[r] => ret'.op = "scheduler_stop"
       /\ (/\ ret'.op = "poll_topic"
           /\ ret'.by = "poller"
           /\ ret'.search_raised)
             => /\ poller_queue' =
                      Tail(IF ret'.enumerated = None THEN poller_queue
                           ELSE ret'.enumerated[1])
                /\ poller_pc' = IF poller_queue' = <<>> THEN "sleeping"
                                ELSE "polling"
       /\ (/\ ret'.op = "generate_current_bar_topic"
           /\ ret'.raised)
             => /\ sched_queue'[ret'.resolution] =
                      Tail(sched_queue[ret'.resolution])
                /\ sched_pc'[ret'.resolution] =
                      IF sched_queue'[ret'.resolution] = <<>> THEN "waiting"
                      ELSE "generating"]_vars

\* An error met the first topic of a scheduler cycle and the task goes on
\* with the topic after it.
C34_Witness ==
    /\ ret.op = "generate_current_bar_topic"
    /\ ret.raised
    /\ ret.left # <<>>
    /\ sched_pc[ret.resolution] = "generating"
    /\ sched_tasks[ret.resolution] = 1

\* C39: whatever start() and stop() calls were made, there is at most one
\* poller task and at most one scheduler task per resolution; a start()
\* while running creates no task; after a stop() no task is left and
\* _running is false.
C39_AtMostOneTask ==
    [][/\ poller_tasks' <= 1
       /\ \A r \in DOMAIN RESOLUTION_MAP : sched_tasks'[r] <= 1
       /\ (ret'.op = "poller_start" /\ poller_running)
             => poller_tasks' = poller_tasks
       /\ (ret'.op = "scheduler_start" /\ sched_running)
             => sched_tasks' = sched_tasks
       /\ ret'.op = "poller_stop"
             => /\ poller_tasks' = 0
                /\ ~poller_running'
                /\ poller_pc' = "stopped"
       /\ ret'.op = "scheduler_stop"
             => /\ \A r \in DOMAIN RESOLUTION_MAP :
                      sched_tasks'[r] = 0 /\ sched_pc'[r] = "stopped"
                /\ ~sched_running']_vars

\* start() was called on a scheduler that runs, one of whose tasks is in
\* a cycle, while the poller's task runs.
C39_Witness ==
    /\ ret.op = "scheduler_start"
    /\ ~ret.created
    /\ sched_tasks["15s"] = 1
    /\ sched_pc["15s"] = "generating"
    /\ poller_tasks = 1
    /\ poller_pc = "sleeping"

\* The instants of the last WindowSeconds seconds at which a grant was made.
RecentGrantTimes == {t \in Clock : grants[t] > 0 /\ now - t < WindowSeconds}

\* The number of grants made within the last WindowSeconds seconds.
RecentGrants ==
    LET F[t \in -1..MaxClock] ==
            IF t = -1 THEN 0
            ELSE F[t - 1] + (IF t \in RecentGrantTimes THEN grants[t] ELSE 0)
    IN F[MaxClock]

\* C35: for a single caller, an acquire made while fewer than N grants lie
\* within the last W seconds is granted at once; made while N grants lie
\* there, it sleeps to (the oldest of them) + W, and is granted at that
\* instant, no earlier and no later.
C35_SingleCallerExactWake ==
    [][now' = now
          => IF rl_pc[1] = "idle"
             THEN IF RecentGrants < RequestsPerWindow
                  THEN /\ grants' = [grants EXCEPT ![now] = @ + 1]
                       /\ rl_pc'[1] = "idle"
                  ELSE /\ grants' = grants
                       /\ rl_pc'[1] = "sleeping"
                       /\ \A t \in RecentGrantTimes :
                             rl_wake'[1] <= t + WindowSeconds
                       /\ \E t \in RecentGrantTimes :
                             rl_wake'[1] = t + WindowSeconds
             ELSE /\ now = rl_wake[1]
                  /\ grants' = [grants EXCEPT ![now] = @ + 1]
                  /\ rl_pc'[1] = "idle"]_vars

\* The acquire that found N grants in the window was granted at the
\* instant the oldest of them left it.
C35_Witness ==
    /\ rl_pc[1] = "idle"
    /\ now = rl_wake[1]
    /\ now >= WindowSeconds
    /\ grants[now] = 1
    /\ grants[now - WindowSeconds] > 0
    /\ RecentGrants = RequestsPerWindow

\* C36: remove_topic, poll_topic, pause_topic and resume_topic of one id
\* leave the record (status, counters), the stored ticks and the stored
\* bars of every other registered topic as they were, also when the other
\* topic was registered with the same label.
C36_OtherTopicsUntouched ==
    [][ret'.op \in {"remove_topic", "poll_topic", "pause_topic", "resume_topic"}
          => \A i \in DOMAIN topics :
                topics[i].id # ret'.topic
                   => /\ get_topic(topics', topics[i].id) = Some(topics[i])
                      /\ ticks'[topics[i].label] = ticks[topics[i].label]
                      /\ bar_store'[topics[i].label] = bar_store[topics[i].label]]_vars

\* The resolutions whose bars are summed over the stored ticks.
SummedResolutions == {"15s", "30s", "1m"}

\* The bar of "tsla" over [start, start + seconds), without a summary.
BarOver(start, resolution) ==
    generate_bar(ticks["tsla"], "tsla", start,
                 start + RESOLUTION_MAP[resolution], resolution, FALSE,
                 FALSE).bar

\* post_count and the four engagement totals of a bar.
Totals(bar) ==
    <<bar.post_count, bar.total_likes, bar.total_retweets, bar.total_replies,
      bar.total_quotes>>

\* The sum of the j-th total over the n consecutive fine bars from start on.
FineTotal(start, fine, n, j) ==
    LET F[k \in 0..n] ==
            IF k = 0 THEN 0
            ELSE F[k - 1]
                    + Totals(BarOver(start + (k - 1) * RESOLUTION_MAP[fine],
                                     fine))[j]
    IN F[n]

\* The starts of the aligned windows of a resolution that instants up to
\* MaxEndTime lie in.
AlignedStarts(resolution) ==
    {floor_to_resolution(t, RESOLUTION_MAP[resolution]) : t \in EndTimes}

\* C38: for the stored ticks and any two supported resolutions fine <
\* coarse, the coarse length is a whole multiple of the fine one, every
\* aligned coarse window starts on a fine boundary and is covered by
\* coarse / fine consecutive fine windows, and the coarse bar's post_count
\* and engagement totals are the sums of those of the fine bars.
C38_CoarseIsSumOfFine ==
    \A fine, coarse \in DOMAIN RESOLUTION_MAP :
       RESOLUTION_MAP[fine] < RESOLUTION_MAP[coarse]
          => /\ RESOLUTION_MAP[coarse] % RESOLUTION_MAP[fine] = 0
             /\ \A start \in AlignedStarts(coarse) :
                   LET n == RESOLUTION_MAP[coarse] \div RESOLUTION_MAP[fine]
                   IN /\ floor_to_resolution(start, RESOLUTION_MAP[fine]) = start
                      /\ start + n * RESOLUTION_MAP[fine]
                            = start + RESOLUTION_MAP[coarse]
                      /\ coarse \in SummedResolutions
                            => \A j \in 1..5 :
                                  Totals(BarOver(start, coarse))[j]
                                     = FineTotal(start, fine, n, j)

\* The window [0, 30) holds ticks in both of its 15 s windows, one of them
\* on the boundary 15.
C38_Witness ==
    /\ BarOver(0, "15s").post_count > 0
    /\ BarOver(15, "15s").post_count > 1
    /\ \E k \in DOMAIN ticks["tsla"] : ticks["tsla"][k].timestamp = 15
    /\ BarOver(0, "30s").post_count
          = BarOver(0, "15s").post_count + BarOver(15, "15s").post_count

\* C37: the windows requested for a topic in consecutive iterations of the
\* poller leave no gap: each starts no later than the one before it ends.
C37_WindowsLeaveNoGap ==
    \A id \in TopicIds :
       \A k \in 1..(Len(poll_windows[id]) - 1) :
          poll_windows[id][k + 1][1] <= poll_windows[id][k][2]

\* The upstream constraint: end_time at least 10 seconds before now.
DeadBandSeconds == 10

\* C40: a search whose end lies within the dead-band returns empty without
\* contacting upstream; the window of a search the poller issues ends
\* outside the dead-band at the instant the search evaluates it, and the
\* search goes upstream.
C40_PollerOutsideDeadBand ==
    /\ (ret.op = "search_for_bar" /\ ret.end_time > ret.at - 2 * DeadBandSeconds)
          => /\ ~ret.contacted
             /\ ret.window = None
    /\ (ret.op = "poll_topic" /\ ret.by = "poller" /\ ret.searched)
          => /\ ret.contacted
             /\ ret.window # None
             /\ 2 * ret.window[1][2] <= ret.at - 2 * DeadBandSeconds

\* The poller's search of a later cycle evaluated its window a second
\* after poll_topic computed it, and went upstream.
C40_Witness ==
    /\ ret.op = "poll_topic"
    /\ ret.by = "poller"
    /\ ret.searched
    /\ ret.contacted
    /\ ret.at - 2 * min_age_seconds - 2 * ret.window[1][2] >= 2
    /\ Len(poll_windows[ret.topic]) > 1

====
